---- MODULE Spec2Model ----
(***************************************************************************)
(* The directory crawler of scraper/contactScraper.js (scrapeContacts and  *)
(* the functions it calls), as a state machine.  One action per step of    *)
(* the single crawl thread between two suspension points (awaits); the     *)
(* browser, the target site and the file system are the environment.       *)
(*                                                                         *)
(* Abstractions.                                                           *)
(*  - A results page is identified by its URL, ResultsUrl(k); the browser  *)
(*    state is the URL it shows.  page.goto(u) succeeds (the browser shows *)
(*    u) or throws.                                                        *)
(*  - A RawRow is identified by the page it was extracted from and its     *)
(*    ordinal on that page; a ContactRecord is that identity plus the      *)
(*    email the Detail Visitor filled in.                                  *)
(*  - The table file is the sequence of its lines: the header line and one *)
(*    line per record.  fs.writeFileSync replaces the whole content.       *)
(***************************************************************************)
EXTENDS Integers, Sequences, FiniteSets, TLC

\* ------------------------------------------------------------------ bounds

\* CONFIG.maxPages is a configuration knob (30 in the source); the model runs
\* the same loop with a small ceiling.
maxPages == 2
\* Most rows the Page Extractor may return for one results page.
MaxRows == 12
\* Most non-fatal deviations the environment produces in one run: a login
\* wait that times out, a row without a detail link, a detail page that
\* cannot be loaded, a detail page without an address.
MaxSoft == 1
\* Most elements of a page that match the next-page selector list.
MaxControls == 2
MaxLen == 2
MaxMatches == 2
MaxName == 8
MaxLines == 3
\* Most rows of a page that the row selector matches.
MaxMatched == 3
\* Most columns of a row after the name column.
MaxColumns == 3
\* Most calls of startAutomatedCrawl the user starts.
MaxLoops == 2

\* --------------------------------------------------------------- constants

\* "Save progress every 10 contacts"
CheckpointEvery == 10

CSV_HEADERS == <<"First Name", "Middle Initial", "Last Name", "Address1", "Address2",
                 "City", "State", "Zip", "Phone", "Email">>

VARIABLES
  pc,               \* position of the crawl thread in scrapeContacts
  outcome,          \* "none" while crawling, then "Completed" or "Error"
  exitCode,         \* -1 while the process runs, then its exit status
  url,              \* the URL the browser page shows
  pageNum,          \* let pageNum
  hasNextPage,      \* let hasNextPage
  contactElements,  \* the RawRows extracted from the current page
  i,                \* index of the row being processed (1-based)
  contact,          \* the record being built for row i
  currentUrl,       \* const currentUrl = page.url()
  allContacts,      \* let allContacts = []
  file,             \* content of CONFIG.outputFile: a sequence of lines
  \* history variables, read by the properties only
  priorFile,        \* content of the file when the run started
  flushes,          \* number of saveToCSV calls of the run
  errFlushes,       \* number of saveToCSV calls made by the catch block
  errSrc,           \* the operation whose exception reached the catch block
  loginDetected,    \* whether waitForSelector found the listing marker
  lastDetail,       \* what the detail visit of the current row did
  pagResult,        \* what the last goToNextPage call did
  iterPage,         \* URL of the page the current rows were extracted from
  extracted,        \* URLs of the pages handed to the Page Extractor, in order
  soft,             \* number of non-fatal deviations so far
  \* one call of a function of the scraper on a given input (FnSpec)
  call,             \* the function called and its argument
  ret,              \* its result, once it has returned
  \* the Selector Discovery Tool (ToolSpec)
  step,             \* where main of the tool stands
  selectors,        \* config.selectors: the selectors set so far, by name
  configFile,       \* the configuration file
  history,          \* the session history of the tool's browser page, current page last
  toolOutcome,      \* "none", then "Completed" or "Error"
  \* the dashboard crawler (DashSpec)
  isRunning,        \* isRunningRef.current
  status,           \* the status shown
  vault,            \* the names of the stories in the vault, newest first
  sheet,            \* the names of the rows of the sheet, oldest first
  added,            \* the names of the stories passed to onAdd, in call order
  loops             \* the calls of startAutomatedCrawl made so far

\* The variables of the crawl.
crawlVars == <<pc, outcome, exitCode, url, pageNum, hasNextPage, contactElements, i,
               contact, currentUrl, allContacts, file, priorFile, flushes, errFlushes,
               errSrc, loginDetected, lastDetail, pagResult, iterPage, extracted, soft>>

\* The variables of a single function call.
fnVars == <<call, ret>>

\* The variables of the Selector Discovery Tool.
toolVars == <<step, selectors, configFile, history, toolOutcome>>

\* The variables of the dashboard crawler.
dashVars == <<isRunning, status, vault, sheet, added, loops>>

\* What a step of the crawl leaves alone.
otherVars == <<fnVars, toolVars, dashVars>>

vars == <<crawlVars, fnVars, toolVars, dashVars>>

\* ----------------------------------------------------------------- helpers

NoUrl == <<"about:blank">>
ResultsUrl(k) == <<"results", k>>
DetailUrl(row) == <<"detail", row.page, row.index>>
IsResults(u) == u[1] = "results"

\* No function call is under way.
NoCall == [fn |-> "none"]
NoRet == [done |-> FALSE]
\* The call returned v.
Ret(v) == [done |-> TRUE, val |-> v]

\* The text parseContactFromRow derives for one column from a RawRow.
FieldOf(col, rowData) == <<col, rowData.page, rowData.index>>

\* A ContactRecord built from rowData, with the given email.
ContactOf(rowData, mail) ==
  [firstName |-> FieldOf("firstName", rowData),
   middleInitial |-> FieldOf("middleInitial", rowData),
   lastName |-> FieldOf("lastName", rowData),
   address1 |-> FieldOf("address1", rowData),
   address2 |-> FieldOf("address2", rowData),
   city |-> FieldOf("city", rowData),
   state |-> FieldOf("state", rowData),
   zip |-> FieldOf("zip", rowData),
   phone |-> FieldOf("phone", rowData),
   email |-> mail]

\* The RawRow <<page, index>> a record was built from.
RowOf(c) == <<c.firstName[2], c.firstName[3]>>

NoContact == ContactOf([page |-> 0, index |-> 0], "")
NoFile == <<>>

\* One line of the table file: the record's fields in column order (their
\* text, escaped and joined, is escapeCSV and RowText below).
\* Mutant of CsvRow: city and state change places.
CsvRow_swapped(c) ==
  <<c.firstName, c.middleInitial, c.lastName, c.address1, c.address2,
    c.state, c.city, c.zip, c.phone, c.email>>

CsvRow(c) ==
  <<c.firstName, c.middleInitial, c.lastName, c.address1, c.address2,
    c.city, c.state, c.zip, c.phone, c.email>>

\* toCSV: [header, ...rows].join('\n')
toCSV(contacts) == <<CSV_HEADERS>> \o [k \in 1..Len(contacts) |-> CsvRow(contacts[k])]

\* A table file left by an earlier run.
OldFile == toCSV(<<ContactOf([page |-> 0, index |-> 1], "old@x.org")>>)

\* The page lengths the target site serves: an empty page, a single row and
\* a full page.
RowCounts == {0, 1, MaxRows}

\* The address a detail page yields for a row, after cleanEmail.
EmailOf(row) == "jane@example.com"

PageOf(u) == IF IsResults(u) THEN u[2] ELSE 0
\* Where activating the next-page control of the page at u leads.
NextUrl(u) == IF IsResults(u) THEN ResultsUrl(u[2] + 1) ELSE u

\* Mutant of saveToCSV: the content is appended to the file (appendFileSync).
saveToCSV_appends(contacts) == file \o toCSV(contacts)

\* Mutant of saveToCSV: only the records since the last checkpoint are written.
saveToCSV_lastBatch(contacts) ==
  toCSV(SubSeq(contacts,
               IF Len(contacts) > CheckpointEvery THEN Len(contacts) - CheckpointEvery + 1 ELSE 1,
               Len(contacts)))

\* saveToCSV: fs.writeFileSync(outputPath, toCSV(contacts)) replaces the content.
saveToCSV(contacts) == toCSV(contacts)

\* Mutant of ShouldCheckpoint: the test is made on the count before the push.
ShouldCheckpoint_beforePush(n) == (n - 1) % CheckpointEvery = 0

\* Mutant of ShouldCheckpoint: "=== 10" instead of "% 10 === 0".
ShouldCheckpoint_once(n) == n = CheckpointEvery

\* if (allContacts.length % 10 === 0)
ShouldCheckpoint(n) == n % CheckpointEvery = 0

\* Mutant of CatchSaves: the catch block saves unconditionally.
CatchSaves_always(n) == TRUE

\* Mutant of CatchSaves: the test admits the empty buffer.
CatchSaves_nonNegative(n) == n >= 0

\* catch: if (allContacts.length > 0)
CatchSaves(n) == n > 0

\* parseContactFromRow: the record built from a RawRow, email still empty.
parseContactFromRow(rowData) == ContactOf(rowData, "")

TypeOK ==
  /\ pc \in {"start", "gating", "while", "row", "return", "paginate", "finally", "exited"}
  /\ outcome \in {"none", "Completed", "Error"}
  /\ exitCode \in {-1, 0, 1}
  /\ pageNum \in 0..(maxPages + 1)
  /\ hasNextPage \in BOOLEAN
  /\ i \in 0..(MaxRows + 1)
  /\ Len(contactElements) <= MaxRows
  /\ flushes \in Nat
  /\ errFlushes \in 0..1
  /\ soft \in 0..MaxSoft

\* ------------------------------------------------------------------- Init

\* No selector set.
NoSelectors == [k \in {} |-> ""]

\* No configuration file.
NoConfig == [written |-> FALSE]

\* The tool before main runs: a new page shows about:blank.
ToolIdle ==
  /\ step = "goto"
  /\ selectors = NoSelectors
  /\ configFile = NoConfig
  /\ history = <<"about:blank">>
  /\ toolOutcome = "none"

\* A call of startAutomatedCrawl not made yet.
NoLoop == [lpc |-> "unused", existing |-> {}, queue |-> <<>>, i |-> 0, story |-> ""]

\* The dashboard before any click, with an empty vault and an empty sheet.
DashIdle ==
  /\ isRunning = FALSE
  /\ status = "idle"
  /\ vault = <<>>
  /\ sheet = <<>>
  /\ added = <<>>
  /\ loops = [k \in 1..MaxLoops |-> NoLoop]

CrawlInit ==
  /\ pc = "start"
  /\ outcome = "none"
  /\ exitCode = -1
  /\ url = NoUrl
  /\ pageNum = 0
  /\ hasNextPage = FALSE
  /\ contactElements = <<>>
  /\ i = 0
  /\ contact = NoContact
  /\ currentUrl = NoUrl
  /\ allContacts = <<>>
  /\ file \in {NoFile, OldFile}
  /\ priorFile = file
  /\ flushes = 0
  /\ errFlushes = 0
  /\ errSrc = "none"
  /\ loginDetected = FALSE
  /\ lastDetail = "none"
  /\ pagResult = "none"
  /\ iterPage = NoUrl
  /\ extracted = <<>>
  /\ soft = 0

Init ==
  /\ CrawlInit
  /\ call = NoCall
  /\ ret = NoRet
  /\ ToolIdle
  /\ DashIdle

\* ---------------------------------------------------------------- actions

\* Mutant of Fatal: after the catch block saved, the loop is entered again.
Fatal_retries(src) ==
  /\ outcome' = "Error"
  /\ errSrc' = src
  /\ pc' = "while"
  /\ IF CatchSaves(Len(allContacts))
       THEN /\ file' = saveToCSV(allContacts)
            /\ flushes' = flushes + 1
            /\ errFlushes' = 1
       ELSE UNCHANGED <<file, flushes, errFlushes>>

\* An exception reaches the catch block of scrapeContacts: it saves whatever
\* is accumulated (if anything) and falls through to finally.
Fatal(src) ==
  /\ outcome' = "Error"
  /\ errSrc' = src
  /\ pc' = "finally"
  /\ IF CatchSaves(Len(allContacts))
       THEN /\ file' = saveToCSV(allContacts)
            /\ flushes' = flushes + 1
            /\ errFlushes' = 1
       ELSE UNCHANGED <<file, flushes, errFlushes>>

\* allContacts.push(contact), then the checkpoint test, then the loop step.
\* Mutant of PushContact: the row loop ends after the first push.
PushContact_early(c) ==
  /\ allContacts' = Append(allContacts, c)
  /\ IF ShouldCheckpoint(Len(allContacts) + 1)
       THEN /\ file' = saveToCSV(Append(allContacts, c))
            /\ flushes' = flushes + 1
       ELSE UNCHANGED <<file, flushes>>
  /\ i' = i + 1
  /\ pc' = "paginate"

\* Mutant of PushContact: unshift instead of push.
PushContact_prepends(c) ==
  /\ allContacts' = <<c>> \o allContacts
  /\ IF ShouldCheckpoint(Len(allContacts) + 1)
       THEN /\ file' = saveToCSV(<<c>> \o allContacts)
            /\ flushes' = flushes + 1
       ELSE UNCHANGED <<file, flushes>>
  /\ i' = i + 1
  /\ pc' = IF i + 1 > Len(contactElements) THEN "paginate" ELSE "row"

PushContact(c) ==
  /\ allContacts' = Append(allContacts, c)
  /\ IF ShouldCheckpoint(Len(allContacts) + 1)
       THEN /\ file' = saveToCSV(Append(allContacts, c))
            /\ flushes' = flushes + 1
       ELSE UNCHANGED <<file, flushes>>
  /\ i' = i + 1
  /\ pc' = IF i + 1 > Len(contactElements) THEN "paginate" ELSE "row"

\* page.goto(CONFIG.baseUrl) succeeds.
GotoBase ==
  /\ pc = "start"
  /\ url' = ResultsUrl(1)
  /\ pc' = "gating"
  /\ UNCHANGED <<outcome, exitCode, pageNum, hasNextPage, contactElements, i, contact,
                 currentUrl, allContacts, file, priorFile, flushes, errFlushes, errSrc,
                 loginDetected, lastDetail, pagResult, iterPage, extracted, soft>>
  /\ UNCHANGED otherVars

\* page.goto(CONFIG.baseUrl) throws (timeout, network error).
GotoBaseFails ==
  /\ pc = "start"
  /\ Fatal("gotoBase")
  /\ UNCHANGED <<exitCode, url, pageNum, hasNextPage, contactElements, i, contact,
                 currentUrl, allContacts, priorFile, loginDetected, lastDetail,
                 pagResult, iterPage, extracted, soft>>
  /\ UNCHANGED otherVars

\* Mutant of WaitForLogin: the timeout of waitForSelector is not caught.
WaitForLogin_propagates ==
  /\ pc = "gating"
  /\ \/ /\ loginDetected' = TRUE
        /\ soft' = soft
        /\ pageNum' = 1
        /\ hasNextPage' = TRUE
        /\ pc' = "while"
        /\ UNCHANGED <<outcome, file, flushes, errFlushes, errSrc>>
     \/ /\ soft < MaxSoft
        /\ soft' = soft + 1
        /\ loginDetected' = FALSE
        /\ Fatal("login")
        /\ UNCHANGED <<pageNum, hasNextPage>>
  /\ UNCHANGED <<exitCode, url, contactElements, i, contact, currentUrl,
                 allContacts, priorFile, lastDetail, pagResult, iterPage, extracted>>
  /\ UNCHANGED otherVars

\* waitForLogin: the marker appears or the wait times out (caught); either
\* way the function returns and the loop variables are initialised.
WaitForLogin ==
  /\ pc = "gating"
  /\ \/ loginDetected' = TRUE /\ soft' = soft
     \/ soft < MaxSoft /\ soft' = soft + 1 /\ loginDetected' = FALSE
  /\ pageNum' = 1
  /\ hasNextPage' = TRUE
  /\ pc' = "while"
  /\ UNCHANGED <<outcome, exitCode, url, contactElements, i, contact, currentUrl,
                 allContacts, file, priorFile, flushes, errFlushes, errSrc, lastDetail,
                 pagResult, iterPage, extracted>>
  /\ UNCHANGED otherVars

\* Mutant of LoopCond: "<" instead of "<=".
LoopCond_strict == hasNextPage /\ pageNum < maxPages

\* Mutant of LoopCond: the page ceiling is not tested.
LoopCond_noCeiling == hasNextPage

\* while (hasNextPage && pageNum <= CONFIG.maxPages)
LoopCond == hasNextPage /\ pageNum <= maxPages

\* Mutant of ExtractPage: the row loop is entered before its test (do-while).
ExtractPage_alwaysRows ==
  /\ pc = "while"
  /\ LoopCond
  /\ \E n \in RowCounts : \E noLink \in SUBSET (1..n) :
       /\ soft + Cardinality(noLink) <= MaxSoft
       /\ soft' = soft + Cardinality(noLink)
       /\ contactElements' = [k \in 1..n |->
             [page |-> PageOf(url), index |-> k, href |-> k \notin noLink]]
  /\ pc' = "row"
  /\ i' = 1
  /\ iterPage' = url
  /\ extracted' = Append(extracted, url)
  /\ lastDetail' = "none"
  /\ UNCHANGED <<outcome, exitCode, url, pageNum, hasNextPage, contact, currentUrl,
                 allContacts, file, priorFile, flushes, errFlushes, errSrc,
                 loginDetected, pagResult>>
  /\ UNCHANGED otherVars

\* extractContactsFromPage returns n rows; the rows in noLink carry no href.
ExtractPage ==
  /\ pc = "while"
  /\ LoopCond
  /\ \E n \in RowCounts : \E noLink \in SUBSET (1..n) :
       /\ soft + Cardinality(noLink) <= MaxSoft
       /\ soft' = soft + Cardinality(noLink)
       /\ contactElements' = [k \in 1..n |->
             [page |-> PageOf(url), index |-> k, href |-> k \notin noLink]]
       /\ pc' = IF n = 0 THEN "paginate" ELSE "row"
  /\ i' = 1
  /\ iterPage' = url
  /\ extracted' = Append(extracted, url)
  /\ lastDetail' = "none"
  /\ UNCHANGED <<outcome, exitCode, url, pageNum, hasNextPage, contact, currentUrl,
                 allContacts, file, priorFile, flushes, errFlushes, errSrc,
                 loginDetected, pagResult>>
  /\ UNCHANGED otherVars

\* page.$$eval throws inside extractContactsFromPage.
ExtractPageFails ==
  /\ pc = "while"
  /\ LoopCond
  /\ Fatal("extract")
  /\ UNCHANGED <<exitCode, url, pageNum, hasNextPage, contactElements, i, contact,
                 currentUrl, allContacts, priorFile, loginDetected, lastDetail,
                 pagResult, iterPage, extracted, soft>>
  /\ UNCHANGED otherVars

\* A row without href: no detail visit, the record is appended as parsed.
\* Mutant of ProcessRowNoLink: a row without href is skipped (continue).
ProcessRowNoLink_skips ==
  /\ pc = "row"
  /\ ~contactElements[i].href
  /\ contact' = parseContactFromRow(contactElements[i])
  /\ lastDetail' = "nolink"
  /\ i' = i + 1
  /\ pc' = IF i + 1 > Len(contactElements) THEN "paginate" ELSE "row"
  /\ UNCHANGED <<outcome, exitCode, url, pageNum, hasNextPage, contactElements,
                 currentUrl, priorFile, errFlushes, errSrc, loginDetected, pagResult,
                 iterPage, extracted, soft, allContacts, file, flushes>>
  /\ UNCHANGED otherVars

ProcessRowNoLink ==
  /\ pc = "row"
  /\ ~contactElements[i].href
  /\ contact' = parseContactFromRow(contactElements[i])
  /\ lastDetail' = "nolink"
  /\ PushContact(parseContactFromRow(contactElements[i]))
  /\ UNCHANGED <<outcome, exitCode, url, pageNum, hasNextPage, contactElements,
                 currentUrl, priorFile, errFlushes, errSrc, loginDetected, pagResult,
                 iterPage, extracted, soft>>
  /\ UNCHANGED otherVars

\* getEmailFromDetailPage loads the detail page; the search yields an address
\* or nothing.
VisitDetail ==
  /\ pc = "row"
  /\ contactElements[i].href
  /\ currentUrl' = url
  /\ url' = DetailUrl(contactElements[i])
  /\ \/ /\ lastDetail' = "found"
        /\ contact' = [parseContactFromRow(contactElements[i]) EXCEPT
                          !.email = EmailOf(contactElements[i])]
        /\ soft' = soft
     \/ /\ soft < MaxSoft
        /\ soft' = soft + 1
        /\ lastDetail' = "nothing"
        /\ contact' = parseContactFromRow(contactElements[i])
  /\ pc' = "return"
  /\ UNCHANGED <<outcome, exitCode, pageNum, hasNextPage, contactElements, i,
                 allContacts, file, priorFile, flushes, errFlushes, errSrc,
                 loginDetected, pagResult, iterPage, extracted>>
  /\ UNCHANGED otherVars

\* The mutant of VisitDetailFails: getEmailFromDetailPage without its try/catch.
VisitDetailFails_propagates ==
  /\ pc = "row"
  /\ contactElements[i].href
  /\ soft < MaxSoft
  /\ soft' = soft + 1
  /\ currentUrl' = url
  /\ lastDetail' = "navfail"
  /\ contact' = parseContactFromRow(contactElements[i])
  /\ Fatal("detail")
  /\ UNCHANGED <<exitCode, url, pageNum, hasNextPage, contactElements, i, allContacts,
                 priorFile, loginDetected, pagResult, iterPage, extracted>>
  /\ UNCHANGED otherVars

\* getEmailFromDetailPage: page.goto(contactUrl) throws; the catch returns ''.
\* The failed navigation may or may not have left the results page.
VisitDetailFails ==
  /\ pc = "row"
  /\ contactElements[i].href
  /\ soft < MaxSoft
  /\ soft' = soft + 1
  /\ currentUrl' = url
  /\ url' \in {url, DetailUrl(contactElements[i])}
  /\ lastDetail' = "navfail"
  /\ contact' = parseContactFromRow(contactElements[i])
  /\ pc' = "return"
  /\ UNCHANGED <<outcome, exitCode, pageNum, hasNextPage, contactElements, i,
                 allContacts, file, priorFile, flushes, errFlushes, errSrc,
                 loginDetected, pagResult, iterPage, extracted>>
  /\ UNCHANGED otherVars

\* Mutant of ReturnToResults: the browser is not sent back to currentUrl.
ReturnToResults_stays ==
  /\ pc = "return"
  /\ url' = url
  /\ PushContact(contact)
  /\ UNCHANGED <<outcome, exitCode, pageNum, hasNextPage, contactElements, contact,
                 currentUrl, priorFile, errFlushes, errSrc, loginDetected, lastDetail,
                 pagResult, iterPage, extracted, soft>>
  /\ UNCHANGED otherVars

\* page.goto(currentUrl) succeeds, the delay elapses, the record is appended.
ReturnToResults ==
  /\ pc = "return"
  /\ url' = currentUrl
  /\ PushContact(contact)
  /\ UNCHANGED <<outcome, exitCode, pageNum, hasNextPage, contactElements, contact,
                 currentUrl, priorFile, errFlushes, errSrc, loginDetected, lastDetail,
                 pagResult, iterPage, extracted, soft>>
  /\ UNCHANGED otherVars

\* page.goto(currentUrl) throws: the record of the row is not appended.
ReturnToResultsFails ==
  /\ pc = "return"
  /\ Fatal("goBack")
  /\ UNCHANGED <<exitCode, url, pageNum, hasNextPage, contactElements, i, contact,
                 currentUrl, allContacts, priorFile, loginDetected, lastDetail,
                 pagResult, iterPage, extracted, soft>>
  /\ UNCHANGED otherVars

\* Mutant of NextClicked: the counter is advanced by two.
NextClicked_twice ==
  /\ pc = "paginate"
  /\ url' = NextUrl(url)
  /\ pagResult' = "clicked"
  /\ hasNextPage' = TRUE
  /\ pageNum' = pageNum + 2
  /\ pc' = "while"
  /\ UNCHANGED <<outcome, exitCode, contactElements, i, contact, currentUrl,
                 allContacts, file, priorFile, flushes, errFlushes, errSrc,
                 loginDetected, lastDetail, iterPage, extracted, soft>>
  /\ UNCHANGED otherVars

\* goToNextPage finds an enabled control, activates it and reports true.
NextClicked ==
  /\ pc = "paginate"
  /\ url' = NextUrl(url)
  /\ pagResult' = "clicked"
  /\ hasNextPage' = TRUE
  /\ pageNum' = pageNum + 1
  /\ pc' = "while"
  /\ UNCHANGED <<outcome, exitCode, contactElements, i, contact, currentUrl,
                 allContacts, file, priorFile, flushes, errFlushes, errSrc,
                 loginDetected, lastDetail, iterPage, extracted, soft>>
  /\ UNCHANGED otherVars

\* goToNextPage finds no control, or the control found is disabled: false.
NextUnavailable ==
  /\ pc = "paginate"
  /\ \E r \in {"absent", "disabled"} : pagResult' = r
  /\ hasNextPage' = FALSE
  /\ pc' = "while"
  /\ UNCHANGED <<outcome, exitCode, url, pageNum, contactElements, i, contact,
                 currentUrl, allContacts, file, priorFile, flushes, errFlushes, errSrc,
                 loginDetected, lastDetail, iterPage, extracted, soft>>
  /\ UNCHANGED otherVars

\* The mutant of NextThrows: goToNextPage without its try/catch.
NextThrows_propagates ==
  /\ pc = "paginate"
  /\ pagResult' = "exception"
  /\ Fatal("paginate")
  /\ UNCHANGED <<exitCode, url, pageNum, hasNextPage, contactElements, i, contact,
                 currentUrl, allContacts, priorFile, loginDetected, lastDetail,
                 iterPage, extracted, soft>>
  /\ UNCHANGED otherVars

\* goToNextPage: locating or activating the control throws; the catch reports
\* false.  The click may already have navigated.
NextThrows ==
  /\ pc = "paginate"
  /\ url' \in {url, NextUrl(url)}
  /\ pagResult' = "exception"
  /\ hasNextPage' = FALSE
  /\ pc' = "while"
  /\ UNCHANGED <<outcome, exitCode, pageNum, contactElements, i, contact,
                 currentUrl, allContacts, file, priorFile, flushes, errFlushes, errSrc,
                 loginDetected, lastDetail, iterPage, extracted, soft>>
  /\ UNCHANGED otherVars

\* Mutant of FinalSave: the loop ends without the final save.
FinalSave_skipped ==
  /\ pc = "while"
  /\ ~LoopCond
  /\ outcome' = "Completed"
  /\ pc' = "finally"
  /\ UNCHANGED <<exitCode, url, pageNum, hasNextPage, contactElements, i, contact,
                 currentUrl, allContacts, file, priorFile, flushes, errFlushes, errSrc,
                 loginDetected, lastDetail, pagResult, iterPage, extracted, soft>>
  /\ UNCHANGED otherVars

\* The loop ends; "Final save", then the completion banner.
FinalSave ==
  /\ pc = "while"
  /\ ~LoopCond
  /\ file' = saveToCSV(allContacts)
  /\ flushes' = flushes + 1
  /\ outcome' = "Completed"
  /\ pc' = "finally"
  /\ UNCHANGED <<exitCode, url, pageNum, hasNextPage, contactElements, i, contact,
                 currentUrl, allContacts, priorFile, errFlushes, errSrc, loginDetected,
                 lastDetail, pagResult, iterPage, extracted, soft>>
  /\ UNCHANGED otherVars

\* finally: browser.close(); scrapeContacts() resolves (the error was caught)
\* and the process ends with nothing setting an exit status.
CloseAndExit ==
  /\ pc = "finally"
  /\ pc' = "exited"
  /\ exitCode' = 0
  /\ UNCHANGED <<outcome, url, pageNum, hasNextPage, contactElements, i, contact,
                 currentUrl, allContacts, file, priorFile, flushes, errFlushes, errSrc,
                 loginDetected, lastDetail, pagResult, iterPage, extracted, soft>>
  /\ UNCHANGED otherVars

Next ==
  \/ GotoBase
  \/ GotoBaseFails
  \/ WaitForLogin
  \/ ExtractPage
  \/ ExtractPageFails
  \/ ProcessRowNoLink
  \/ VisitDetail
  \/ VisitDetailFails
  \/ ReturnToResults
  \/ ReturnToResultsFails
  \/ NextClicked
  \/ NextUnavailable
  \/ NextThrows
  \/ FinalSave
  \/ CloseAndExit

\* A crawl run: the steps of scrapeContacts.
Spec == Init /\ [][Next]_vars

\* ------------------------------------------------- single function calls

\* An element matched by the selector list of goToNextPage: its text and
\* the three marks the function reads.
Controls ==
  [text : {"Next", ""}, cls : BOOLEAN, attr : BOOLEAN, aria : BOOLEAN]

\* The elements of a page matching the selector list, in document order.
ControlSeqs == UNION {[1..n -> Controls] : n \in 0..MaxControls}

\* Mutant of isDisabled: only the disabled class is read.
isDisabled_classOnly(el) == el.cls

\* el.classList.contains('disabled') || el.hasAttribute('disabled') ||
\* el.getAttribute('aria-disabled') === 'true'
isDisabled(el) == el.cls \/ el.attr \/ el.aria

\* goToNextPage on a page whose matching elements are arg.matches: page.$
\* takes the first one; clicked is the ordinal of the element activated, 0
\* if none.  arg.fault names the call that throws, if any.
goToNextPage(arg) ==
  IF arg.fault = "locate" THEN [result |-> FALSE, clicked |-> 0]
  ELSE IF arg.matches = <<>> THEN [result |-> FALSE, clicked |-> 0]
  ELSE IF isDisabled(arg.matches[1]) THEN [result |-> FALSE, clicked |-> 0]
  ELSE IF arg.fault = "click" THEN [result |-> FALSE, clicked |-> 0]
  ELSE [result |-> TRUE, clicked |-> 1]

NextPageCalls ==
  {[fn |-> "goToNextPage", arg |-> [matches |-> m, fault |-> f]] :
     m \in ControlSeqs, f \in {"none", "locate", "click"}}

\* Texts are sequences of characters over a small alphabet that holds
\* every character escapeCSV looks for, the other line-break character and
\* a letter.
COMMA == ","
DQUOTE == "\""
LF == "\n"
CR == "\r"
Chars == {"a", COMMA, DQUOTE, LF, CR}
Texts == UNION {[1..n -> Chars] : n \in 0..MaxLen}

\* A field that is null or undefined.
Null == <<"null">>

\* str.includes(ch)
Includes(str, ch) == \E k \in 1..Len(str) : str[k] = ch

\* str.replace(/"/g, '""')
RECURSIVE DoubleQuotes(_)
DoubleQuotes(str) ==
  IF str = <<>> THEN <<>>
  ELSE (IF Head(str) = DQUOTE THEN <<DQUOTE, DQUOTE>> ELSE <<Head(str)>>)
         \o DoubleQuotes(Tail(str))

\* escapeCSV: '' for null, the text in double quotes with its quotes doubled
\* if it holds a comma, a double quote or a line feed, the text otherwise.
escapeCSV(field) ==
  IF field = Null THEN <<>>
  ELSE IF Includes(field, COMMA) \/ Includes(field, DQUOTE) \/ Includes(field, LF)
    THEN <<DQUOTE>> \o DoubleQuotes(field) \o <<DQUOTE>>
  ELSE field

\* Array.prototype.join
RECURSIVE Join(_, _)
Join(texts, sep) ==
  IF texts = <<>> THEN <<>>
  ELSE IF Len(texts) = 1 THEN texts[1]
  ELSE texts[1] \o <<sep>> \o Join(Tail(texts), sep)

\* The line toCSV writes for one record: its ten fields, each through
\* escapeCSV, joined by commas.
RowText(fields) == Join([k \in 1..Len(fields) |-> escapeCSV(fields[k])], COMMA)

\* The ten fields of the record of a call: two neighbouring columns carry
\* the texts under test, the others a plain text.
FieldsOf(arg) ==
  [k \in 1..10 |-> IF k = arg.at THEN arg.a
                   ELSE IF k = arg.at + 1 THEN arg.b
                   ELSE <<"a">>]

RowCalls ==
  {[fn |-> "toCSV", arg |-> [a |-> a, b |-> b, at |-> at]] :
     a \in Texts \cup {Null}, b \in Texts \cup {Null}, at \in {1, 9}}

\* The addresses a detail page can show.  The first two are a person's; the
\* next two hold one of the strings the text scan filters out; the last has
\* a one-letter top-level domain, which the pattern of the text scan does
\* not match and the patterns of the labelled scan and of cleanEmail do.
PersonAddrs == {"jane@example.com", "Joe@Example.com"}
GenericAddrs == {"support@company.com", "noreply@company.com"}
ShortAddrs == {"k@b.c"}
EmailShaped == PersonAddrs \cup GenericAddrs \cup ShortAddrs

\* email.includes('noreply') || email.includes('support@') ||
\* email.includes('info@') || email.includes('admin@')
IsGeneric(e) == e \in GenericAddrs

\* String.prototype.toLowerCase on the addresses above and on the company
\* names of the dashboard.
toLowerCase(e) ==
  CASE e = "Joe@Example.com" -> "joe@example.com"
    [] e = "Acme" -> "acme"
    [] OTHER -> e

\* cleanEmail: '' for an empty text; otherwise the first match of the
\* address pattern in lower case, '' if there is none.
cleanEmail(e) ==
  IF e = "" THEN ""
  ELSE IF e \in EmailShaped THEN toLowerCase(e)
  ELSE ""

\* A detail page as getEmailFromDetailPage reads it: mailto is the first
\* a[href^="mailto:"] (addr is its href without the scheme and the query),
\* matches are the matches of the address pattern in document.body.innerText
\* in text order, labelled is the address the 'email:' pattern captures in
\* the first element whose innerText holds 'email:' ("" if none), fault
\* tells that page.goto throws.
MailtoLinks ==
  {[present |-> FALSE, addr |-> ""]}
    \cup {[present |-> TRUE, addr |-> a] : a \in {"", "webmaster"} \cup EmailShaped}
TextAddrs == PersonAddrs \cup GenericAddrs
MatchSeqs == UNION {[1..n -> TextAddrs] : n \in 0..MaxMatches}
DetailPages ==
  [mailto : MailtoLinks, matches : MatchSeqs, labelled : {""} \cup EmailShaped,
   fault : BOOLEAN]

\* Mutant of PersonFirst: the first match, generic or not.
PersonFirst_unfiltered(matches) == matches[1]

\* matches.filter(not generic)[0] || matches[0]
PersonFirst(matches) ==
  LET personEmails == SelectSeq(matches, LAMBDA e : ~IsGeneric(e))
  IN  IF personEmails # <<>> THEN personEmails[1] ELSE matches[1]

\* getEmailFromDetailPage: a mailto link, if there is one, decides the
\* result; otherwise the text scan, then the labelled scan; the result goes
\* through cleanEmail; an exception gives ''.
getEmailFromDetailPage(p) ==
  IF p.fault THEN ""
  ELSE cleanEmail(IF p.mailto.present THEN p.mailto.addr
                  ELSE IF p.matches # <<>> THEN PersonFirst(p.matches)
                  ELSE IF p.labelled # "" THEN p.labelled
                  ELSE "")

DetailCalls == {[fn |-> "getEmailFromDetailPage", arg |-> p] : p \in DetailPages}

\* Names are texts over a letter, the period and the blank.
SPACE == " "
DOT == "."
TAB == "\t"
\* The white space of the texts: what trim removes and \s matches.
Blanks == {SPACE, TAB}
NameChars == {"a", DOT, SPACE}
Names == UNION {[1..n -> NameChars] : n \in 0..MaxName}

RECURSIVE TrimLeft(_)
TrimLeft(str) ==
  IF str # <<>> /\ Head(str) \in Blanks THEN TrimLeft(Tail(str)) ELSE str

RECURSIVE TrimRight(_)
TrimRight(str) ==
  IF str # <<>> /\ str[Len(str)] \in Blanks
    THEN TrimRight(SubSeq(str, 1, Len(str) - 1))
    ELSE str

\* Mutant of Trim: the text is left as it is.
Trim_none(str) == str

\* String.prototype.trim
Trim(str) == TrimRight(TrimLeft(str))

\* str.split(/\s+/): the pieces between the runs of blanks; a text without
\* a blank, the empty text included, is its own single piece.
RECURSIVE SplitFrom(_, _)
SplitFrom(str, cur) ==
  IF str = <<>> THEN <<cur>>
  ELSE IF Head(str) = SPACE THEN <<cur>> \o SplitFrom(TrimLeft(Tail(str)), <<>>)
  ELSE SplitFrom(Tail(str), Append(cur, Head(str)))
SplitWs(str) == SplitFrom(str, <<>>)

\* Mutant of RemoveFirst: nothing is removed.
RemoveFirst_none(str, ch) == str

\* str.replace(ch, ''): the first occurrence of ch is removed.
RECURSIVE RemoveFirst(_, _)
RemoveFirst(str, ch) ==
  IF str = <<>> THEN <<>>
  ELSE IF Head(str) = ch THEN Tail(str)
  ELSE <<Head(str)>> \o RemoveFirst(Tail(str), ch)

NameOf(first, middle, last) ==
  [firstName |-> first, middleInitial |-> middle, lastName |-> last]

\* parseName
parseName(fullName) ==
  IF fullName = <<>> THEN NameOf(<<>>, <<>>, <<>>)
  ELSE
    LET parts == SplitWs(Trim(fullName))
    IN  IF Len(parts) = 1 THEN NameOf(parts[1], <<>>, <<>>)
        ELSE IF Len(parts) = 2 THEN NameOf(parts[1], <<>>, parts[2])
        ELSE
          LET middlePart == parts[2]
          IN  IF Len(middlePart) = 1 \/ (Len(middlePart) = 2 /\ middlePart[2] = DOT)
                THEN NameOf(parts[1], RemoveFirst(middlePart, DOT),
                            Join(SubSeq(parts, 3, Len(parts)), SPACE))
                ELSE NameOf(parts[1], <<middlePart[1]>>,
                            Join(SubSeq(parts, 3, Len(parts)), SPACE))

NameCalls == {[fn |-> "parseName", arg |-> n] : n \in Names}

\* Address texts are sequences of pieces: a number that is not a zip code,
\* a word of three letters, a state code in upper and in lower case, a
\* five-digit zip code, its four-digit extension with the hyphen, the comma,
\* the blank and the line feed.  The patterns of parseAddress see a
\* two-letter run only in a state code standing between blanks and five
\* digits only in a zip code.
NUM == "12"
WORD == "Elm"
STCODE == "IL"
STLOWER == "il"
ZIP == "62704"
PLUS4 == "-1234"

\* The lines an address text is made of: blank lines, street lines, lines
\* of the shape city, state, zip (with and without comma, padded or not)
\* and lines that miss the shape by the zip code or by the city.
RawLines ==
  { <<>>,
    <<SPACE>>,
    <<NUM, SPACE, WORD>>,
    <<SPACE, WORD, SPACE>>,
    <<WORD, COMMA, SPACE, STCODE, SPACE, ZIP>>,
    <<SPACE, WORD, SPACE, WORD, SPACE, STLOWER, SPACE, SPACE, ZIP, PLUS4, SPACE>>,
    <<WORD, COMMA, SPACE, STCODE, SPACE, NUM>>,
    <<STCODE, SPACE, ZIP>> }

\* Array.prototype.join with a separator of several characters.
RECURSIVE JoinWith(_, _)
JoinWith(texts, sep) ==
  IF texts = <<>> THEN <<>>
  ELSE IF Len(texts) = 1 THEN texts[1]
  ELSE texts[1] \o sep \o JoinWith(Tail(texts), sep)

AddressTexts ==
  {JoinWith(ls, <<LF>>) : ls \in UNION {[1..n -> RawLines] : n \in 0..MaxLines}}

\* str.split(ch)
RECURSIVE SplitAtFrom(_, _, _)
SplitAtFrom(str, ch, cur) ==
  IF str = <<>> THEN <<cur>>
  ELSE IF Head(str) = ch THEN <<cur>> \o SplitAtFrom(Tail(str), ch, <<>>)
  ELSE SplitAtFrom(Tail(str), ch, Append(cur, Head(str)))
SplitAt(str, ch) == SplitAtFrom(str, ch, <<>>)

\* The ways /^(.+?),?\s+([A-Z]{2})\s+(\d{5}(?:-\d{4})?)$/i matches a line:
\* k pieces of city, c commas, a blanks, the state, b blanks, z pieces of zip.
CityStateZipMatches(line) ==
  LET n == Len(line)
  IN  {m \in [k : 1..n, c : 0..1, a : 1..n, b : 1..n, z : 1..2] :
         /\ m.k + m.c + m.a + 1 + m.b + m.z = n
         /\ m.c = 1 => line[m.k + 1] = COMMA
         /\ \A j \in 1..m.a : line[m.k + m.c + j] = SPACE
         /\ line[m.k + m.c + m.a + 1] \in {STCODE, STLOWER}
         /\ \A j \in 1..m.b : line[m.k + m.c + m.a + 1 + j] = SPACE
         /\ line[n - m.z + 1] = ZIP
         /\ m.z = 2 => line[n] = PLUS4}

\* The match the pattern returns: (.+?) is lazy, the shortest city wins.
CityStateZipMatch(line) ==
  CHOOSE m \in CityStateZipMatches(line) :
    \A o \in CityStateZipMatches(line) : m.k <= o.k

\* String.prototype.toUpperCase on a state code.
toUpperCase(st) == IF st = STLOWER THEN STCODE ELSE st

\* Mutant of LastLine: the second line is tested.
LastLine_second(lines) == lines[2]

\* lines[lines.length - 1]
LastLine(lines) == lines[Len(lines)]

AddressOf(a1, a2, c, s, z) ==
  [address1 |-> a1, address2 |-> a2, city |-> c, state |-> s, zip |-> z]

\* parseAddress
parseAddress(addressText) ==
  IF addressText = <<>> THEN AddressOf(<<>>, <<>>, <<>>, <<>>, <<>>)
  ELSE
    LET trimmed == [k \in 1..Len(SplitAt(addressText, LF)) |->
                      Trim(SplitAt(addressText, LF)[k])]
        lines == SelectSeq(trimmed, LAMBDA l : l # <<>>)
        n == Len(lines)
        address1 == IF n >= 1 THEN lines[1] ELSE <<>>
    IN  IF n >= 2
          THEN IF CityStateZipMatches(LastLine(lines)) # {}
                 THEN LET m == CityStateZipMatch(LastLine(lines))
                          last == LastLine(lines)
                      IN  AddressOf(address1,
                                    IF n > 2
                                      THEN JoinWith(SubSeq(lines, 2, n - 1), <<COMMA, SPACE>>)
                                      ELSE <<>>,
                                    Trim(SubSeq(last, 1, m.k)),
                                    <<toUpperCase(last[m.k + m.c + m.a + 1])>>,
                                    SubSeq(last, Len(last) - m.z + 1, Len(last)))
                 ELSE AddressOf(address1,
                                JoinWith(SubSeq(lines, 2, n), <<COMMA, SPACE>>),
                                <<>>, <<>>, <<>>)
          ELSE AddressOf(address1, <<>>, <<>>, <<>>, <<>>)

AddressCalls == {[fn |-> "parseAddress", arg |-> t] : t \in AddressTexts}

\* Rows are built of the pieces of the address texts and of a letter, the
\* tab that innerText puts between the cells of a row, and a phone number
\* in the usual writing; PHTAIL is the last run of digits of PHONE.  In the
\* rows below no two pieces of digits stand side by side, so a run of
\* digits is one piece or the tail of the phone number.
PHONE == "(555) 123-4567"
PHTAIL == "4567"

\* The text of the name column and the texts a further column can have:
\* empty, a word, a street, a line of city, state and zip, a phone number.
NameCell == <<"a", SPACE, "a">>
ColumnTexts ==
  { <<>>,
    <<WORD>>,
    <<NUM, SPACE, WORD>>,
    <<WORD, COMMA, SPACE, STCODE, SPACE, ZIP>>,
    <<PHONE>> }

\* The RawRow of a row with the given columns after the name column:
\* name is the text of the name link, cellTexts the trimmed texts of the
\* cells, rowText the innerText of the row.
RowDataOf(columns) ==
  [name |-> NameCell,
   cellTexts |-> <<NameCell>> \o columns,
   rowText |-> JoinWith(<<NameCell>> \o columns, <<TAB>>)]

RowDatas ==
  {RowDataOf(columns) : columns \in UNION {[1..n -> ColumnTexts] : n \in 0..MaxColumns}}

\* The classes of the patterns, piece by piece.
Letters == {"a", WORD, STCODE, STLOWER}
Digits == {NUM, ZIP}
\* [A-Za-z0-9\s,.#-]: every piece but the phone number, whose parentheses
\* end the run.
AddressClass == Letters \cup Digits \cup Blanks \cup {COMMA, DOT, PLUS4}

\* cleanPhone: the characters other than digits, - ( ) . + and white space
\* are removed, the result is trimmed.
cleanPhone(phone) ==
  IF phone = <<>> THEN <<>>
  ELSE Trim(SelectSeq(phone, LAMBDA ch : ch \in Digits \cup Blanks \cup {PHONE, PHTAIL, DOT, PLUS4}))

\* text.match(/(\(?\d{3}\)?[-.\s]?\d{3}[-.\s]?\d{4})/): the positions of
\* the phone numbers; the first one is the match.
PhoneMatches(text) == {k \in 1..Len(text) : text[k] = PHONE}
PhoneMatch(text) ==
  <<text[CHOOSE k \in PhoneMatches(text) : \A o \in PhoneMatches(text) : k <= o]>>

\* rowText.match(/(\d+\s+[A-Za-z0-9\s,.#-]+)/): a run of digits, white
\* space, and one character of the class or more.  The starts of a match;
\* the first one is taken, and the match runs on as far as the class goes.
RowAddressStarts(text) ==
  {k \in 1..(Len(text) - 2) :
     /\ text[k] \in Digits \cup {PHONE}
     /\ text[k + 1] \in Blanks
     /\ text[k + 2] \in AddressClass}
RowAddressMatch(text) ==
  LET k == CHOOSE x \in RowAddressStarts(text) : \A o \in RowAddressStarts(text) : x <= o
      e == CHOOSE x \in (k + 2)..Len(text) :
             /\ \A j \in (k + 1)..x : text[j] \in AddressClass
             /\ (x = Len(text) \/ text[x + 1] \notin AddressClass)
  IN  <<IF text[k] = PHONE THEN PHTAIL ELSE text[k]>> \o SubSeq(text, k + 1, e)

\* The ways ([A-Za-z\s]+),?\s+([A-Z]{2})\s+(\d{5}(?:-\d{4})?) matches a
\* text: the first group runs from s to e, then a comma or none, blanks,
\* the state code at j, blanks, the zip code at z.
RowCityMatches(text) ==
  LET n == Len(text)
  IN  {m \in [s : 1..n, e : 1..n,
              j : {j \in 1..n : text[j] = STCODE}, z : {z \in 1..n : text[z] = ZIP}] :
         /\ m.s <= m.e /\ m.e < m.j /\ m.j < m.z
         /\ \A k \in m.s..m.e : text[k] \in Letters \cup Blanks
         /\ LET c == IF text[m.e + 1] = COMMA THEN 1 ELSE 0
            IN  /\ m.e + c + 1 <= m.j - 1
                /\ \A k \in (m.e + c + 1)..(m.j - 1) : text[k] \in Blanks
         /\ m.j + 1 <= m.z - 1
         /\ \A k \in (m.j + 1)..(m.z - 1) : text[k] \in Blanks}

\* The match the pattern returns: the leftmost start, and from there the
\* longest first group (it is greedy).
RowCityMatch(text) ==
  CHOOSE m \in RowCityMatches(text) :
    \A o \in RowCityMatches(text) : m.s < o.s \/ (m.s = o.s /\ m.e >= o.e)

\* The city, state and zip of a match in a text.
CityOf(text, m) == Trim(SubSeq(text, m.s, m.e))
StateOf(text, m) == <<text[m.j]>>
ZipOf(text, m) ==
  IF m.z < Len(text) /\ text[m.z + 1] = PLUS4
    THEN <<text[m.z], text[m.z + 1]>>
    ELSE <<text[m.z]>>

\* The same pattern between ^ and $ on a cell: the matches that take the
\* whole cell.
CellCityMatches(cell) ==
  {m \in RowCityMatches(cell) : m.s = 1 /\ m.z + Len(ZipOf(cell, m)) - 1 = Len(cell)}
CellCityMatch(cell) ==
  CHOOSE m \in CellCityMatches(cell) : \A o \in CellCityMatches(cell) : m.e >= o.e

\* cell.match(/^\d+\s/)
StartsWithNumber(cell) ==
  Len(cell) >= 2 /\ cell[1] \in Digits /\ cell[2] \in Blanks

\* The fields of the record that steps 1 to 3 fill from rowText.
RowGuess(rowText) ==
  [phone |-> IF PhoneMatches(rowText) # {} THEN cleanPhone(PhoneMatch(rowText)) ELSE <<>>,
   address1 |-> IF RowAddressStarts(rowText) # {}
                  THEN parseAddress(RowAddressMatch(rowText)).address1 ELSE <<>>,
   address2 |-> IF RowAddressStarts(rowText) # {}
                  THEN parseAddress(RowAddressMatch(rowText)).address2 ELSE <<>>,
   city |-> IF RowCityMatches(rowText) # {} THEN CityOf(rowText, RowCityMatch(rowText)) ELSE <<>>,
   state |-> IF RowCityMatches(rowText) # {} THEN StateOf(rowText, RowCityMatch(rowText)) ELSE <<>>,
   zip |-> IF RowCityMatches(rowText) # {} THEN ZipOf(rowText, RowCityMatch(rowText)) ELSE <<>>]

\* Mutant of Unset: a column always sets its field.
Unset_always(value) == TRUE

\* !phone, !city, !address1: the field is still the empty text.
Unset(value) == value = <<>>

\* The callback of cellTexts.forEach on one cell after the name cell: the
\* first test that succeeds on a field still unset sets it and returns.
ScanCell(fields, cell) ==
  IF PhoneMatches(cell) # {} /\ Unset(fields.phone)
    THEN [fields EXCEPT !.phone = cleanPhone(PhoneMatch(cell))]
  ELSE IF CellCityMatches(cell) # {} /\ Unset(fields.city)
    THEN [fields EXCEPT !.city = CityOf(cell, CellCityMatch(cell)),
                        !.state = StateOf(cell, CellCityMatch(cell)),
                        !.zip = ZipOf(cell, CellCityMatch(cell))]
  ELSE IF StartsWithNumber(cell) /\ Unset(fields.address1)
    THEN [fields EXCEPT !.address1 = cell]
  ELSE fields

\* cellTexts.forEach from the cell at position k on.
RECURSIVE ScanCells(_, _, _)
ScanCells(fields, cellTexts, k) ==
  IF k > Len(cellTexts) THEN fields
  ELSE ScanCells(ScanCell(fields, cellTexts[k]), cellTexts, k + 1)

\* parseContactFromRow on the texts of a row (the crawl above keeps the
\* record of a row as a whole): the name is parsed, steps 1 to 3 guess from
\* the text of the row, step 4 scans the cells after the first if there are
\* two cells or more; email is left empty.
parseContactFromRowData(rowData) ==
  LET names == parseName(rowData.name)
      guess == RowGuess(rowData.rowText)
      fields == IF Len(rowData.cellTexts) > 1
                  THEN ScanCells(guess, rowData.cellTexts, 2)
                  ELSE guess
  IN  [firstName |-> names.firstName,
       middleInitial |-> names.middleInitial,
       lastName |-> names.lastName,
       address1 |-> fields.address1,
       address2 |-> fields.address2,
       city |-> fields.city,
       state |-> fields.state,
       zip |-> fields.zip,
       phone |-> fields.phone,
       email |-> <<>>]

ParseRowCalls == {[fn |-> "parseContactFromRow", arg |-> r] : r \in RowDatas}

\* A row matched by the row selector, as the callback of $$eval sees it:
\* th tells that row.querySelector('th') finds a header cell, link that the
\* name-link selector finds an element in the row.
MatchedRows == [th : BOOLEAN, link : BOOLEAN]

\* The rows $$eval hands to the callback, in document order.
RowLists == UNION {[1..n -> MatchedRows] : n \in 0..MaxMatched}

\* What the callback returns for a skipped row.
NullItem == [index |-> -1]

\* Mutant of IsHeaderRow: no row is taken for a header row.
IsHeaderRow_never(row) == FALSE

\* if (row.querySelector('th')) return null
IsHeaderRow(row) == row.th

\* rows.map((row, index) => ...): null for a header row and for a row
\* without a name link, the item of the row (its index stands for its name,
\* href and texts) otherwise.
MapRow(row, index) ==
  IF IsHeaderRow(row) THEN NullItem
  ELSE IF ~row.link THEN NullItem
  ELSE [index |-> index]

\* extractContactsFromPage: the mapped rows without the nulls.
extractContactsFromPage(rows) ==
  SelectSeq([k \in 1..Len(rows) |-> MapRow(rows[k], k - 1)],
            LAMBDA item : item # NullItem)

ExtractCalls == {[fn |-> "extractContactsFromPage", arg |-> rows] : rows \in RowLists}

FnInit ==
  /\ CrawlInit
  /\ file = NoFile
  /\ \/ call \in NextPageCalls
     \/ call \in RowCalls
     \/ call \in DetailCalls
     \/ call \in NameCalls
     \/ call \in AddressCalls
     \/ call \in ExtractCalls
     \/ call \in ParseRowCalls
  /\ ret = NoRet
  /\ ToolIdle
  /\ DashIdle

CallGoToNextPage ==
  /\ call.fn = "goToNextPage"
  /\ ret = NoRet
  /\ ret' = Ret(goToNextPage(call.arg))
  /\ UNCHANGED <<call, crawlVars, toolVars, dashVars>>

\* toCSV on one record: the line of the record.
CallToCSV ==
  /\ call.fn = "toCSV"
  /\ ret = NoRet
  /\ ret' = Ret(RowText(FieldsOf(call.arg)))
  /\ UNCHANGED <<call, crawlVars, toolVars, dashVars>>

CallGetEmailFromDetailPage ==
  /\ call.fn = "getEmailFromDetailPage"
  /\ ret = NoRet
  /\ ret' = Ret(getEmailFromDetailPage(call.arg))
  /\ UNCHANGED <<call, crawlVars, toolVars, dashVars>>

CallParseName ==
  /\ call.fn = "parseName"
  /\ ret = NoRet
  /\ ret' = Ret(parseName(call.arg))
  /\ UNCHANGED <<call, crawlVars, toolVars, dashVars>>

CallParseAddress ==
  /\ call.fn = "parseAddress"
  /\ ret = NoRet
  /\ ret' = Ret(parseAddress(call.arg))
  /\ UNCHANGED <<call, crawlVars, toolVars, dashVars>>

CallExtractContactsFromPage ==
  /\ call.fn = "extractContactsFromPage"
  /\ ret = NoRet
  /\ ret' = Ret(extractContactsFromPage(call.arg))
  /\ UNCHANGED <<call, crawlVars, toolVars, dashVars>>

CallParseContactFromRow ==
  /\ call.fn = "parseContactFromRow"
  /\ ret = NoRet
  /\ ret' = Ret(parseContactFromRowData(call.arg))
  /\ UNCHANGED <<call, crawlVars, toolVars, dashVars>>

FnNext ==
  \/ CallParseContactFromRow
  \/ CallExtractContactsFromPage
  \/ CallGoToNextPage
  \/ CallToCSV
  \/ CallGetEmailFromDetailPage
  \/ CallParseName
  \/ CallParseAddress

\* One call of one function of the scraper, on every input of the bounded
\* input sets.
FnSpec == FnInit /\ [][FnNext]_vars

Returned == ret.done

\* ------------------------------------------- the Selector Discovery Tool

\* What the operator types at a prompt: nothing, or a selector; at the
\* prompts for a column, a column number as well.
Typed == {"", ".sel"}
ColumnTyped == {"", "7", ".sel"}

BaseUrl == "https://pfac-pro.site-ym.com/search/newsearch.asp"

\* ans.match(/^\d+$/) ? `td:nth-child(${ans})` : ans || fallback
ColumnSelector(ans, fallback) ==
  IF ans = "7" THEN "td:nth-child(7)"
  ELSE IF ans # "" THEN ans
  ELSE fallback

\* config.selectors[name] = value
SetSelector(name, value) == (name :> value) @@ selectors

\* The catch block of main: the error is logged, nothing is written.
ToolFails ==
  /\ toolOutcome' = "Error"
  /\ step' = "finally"

\* page.goto(search page) succeeds.
ToolGoto ==
  /\ step = "goto"
  /\ history' = Append(history, "search")
  /\ step' = "login"
  /\ UNCHANGED <<selectors, configFile, toolOutcome>>
  /\ UNCHANGED <<crawlVars, fnVars, dashVars>>

\* page.goto throws.
ToolGotoFails ==
  /\ step = "goto"
  /\ ToolFails
  /\ UNCHANGED <<selectors, configFile, history>>
  /\ UNCHANGED <<crawlVars, fnVars, dashVars>>

\* The operator logs in, brings the results up and presses Enter; the
\* results show on the search page itself or on a page of their own.
PressEnter ==
  /\ step = "login"
  /\ history' \in {history, Append(history, "results")}
  /\ step' = "step1"
  /\ UNCHANGED <<selectors, configFile, toolOutcome>>
  /\ UNCHANGED <<crawlVars, fnVars, dashVars>>

\* Step 1: the row selector is read and the rows are highlighted.
Step1 ==
  /\ step = "step1"
  /\ \E rowSelector \in Typed :
       selectors' = SetSelector("contactRow",
                                IF rowSelector # "" THEN rowSelector ELSE "table tbody tr")
  /\ step' = "step2"
  /\ UNCHANGED <<configFile, history, toolOutcome>>
  /\ UNCHANGED <<crawlVars, fnVars, dashVars>>

\* Step 1: the selector typed is not one document.querySelectorAll takes;
\* the highlighting throws.
Step1HighlightFails ==
  /\ step = "step1"
  /\ selectors' = SetSelector("contactRow", ".sel")
  /\ ToolFails
  /\ UNCHANGED <<configFile, history>>
  /\ UNCHANGED <<crawlVars, fnVars, dashVars>>

\* Step 2: the name-link selector.
Step2 ==
  /\ step = "step2"
  /\ \E nameSelector \in Typed :
       selectors' = SetSelector("nameLink", IF nameSelector # "" THEN nameSelector ELSE "td a")
  /\ step' = "step3"
  /\ UNCHANGED <<configFile, history, toolOutcome>>
  /\ UNCHANGED <<crawlVars, fnVars, dashVars>>

\* Step 3: the address column.
Step3 ==
  /\ step = "step3"
  /\ \E addressColNum \in ColumnTyped :
       selectors' = SetSelector("address", ColumnSelector(addressColNum, "td:nth-child(2)"))
  /\ step' = "step4"
  /\ UNCHANGED <<configFile, history, toolOutcome>>
  /\ UNCHANGED <<crawlVars, fnVars, dashVars>>

\* Step 4: the city/state/zip column.
Step4 ==
  /\ step = "step4"
  /\ \E cityColNum \in ColumnTyped :
       selectors' = SetSelector("cityStateZip", ColumnSelector(cityColNum, "td:nth-child(3)"))
  /\ step' = "step5"
  /\ UNCHANGED <<configFile, history, toolOutcome>>
  /\ UNCHANGED <<crawlVars, fnVars, dashVars>>

\* Step 5: the phone column.
Step5 ==
  /\ step = "step5"
  /\ \E phoneColNum \in ColumnTyped :
       selectors' = SetSelector("phone", ColumnSelector(phoneColNum, "td:nth-child(4)"))
  /\ step' = "step6"
  /\ UNCHANGED <<configFile, history, toolOutcome>>
  /\ UNCHANGED <<crawlVars, fnVars, dashVars>>

\* Step 6: a name link is found and clicked, the detail page loads, the
\* email selector is read.
Step6Found ==
  /\ step = "step6"
  /\ history' = Append(history, "detail")
  /\ \E emailSelector \in Typed :
       selectors' = SetSelector("email",
                                IF emailSelector # "" THEN emailSelector
                                ELSE "a[href^=\"mailto:\"]")
  /\ step' = "step7"
  /\ UNCHANGED <<configFile, toolOutcome>>
  /\ UNCHANGED <<crawlVars, fnVars, dashVars>>

\* Step 6: page.$ finds no name link inside a row; the step is skipped.
Step6NotFound ==
  /\ step = "step6"
  /\ step' = "step7"
  /\ UNCHANGED <<selectors, configFile, history, toolOutcome>>
  /\ UNCHANGED <<crawlVars, fnVars, dashVars>>

\* Step 6: locating or clicking the link throws.
Step6Fails ==
  /\ step = "step6"
  /\ ToolFails
  /\ UNCHANGED <<selectors, configFile, history>>
  /\ UNCHANGED <<crawlVars, fnVars, dashVars>>

\* page.goBack(): one entry back in the session history, if there is one.
GoBack(h) == IF Len(h) > 1 THEN SubSeq(h, 1, Len(h) - 1) ELSE h

\* Step 7: the page goes back, the next-page selector is read, the
\* configuration is written.
Step7 ==
  /\ step = "step7"
  /\ history' = GoBack(history)
  /\ \E nextSelector \in Typed :
       /\ selectors' = SetSelector("nextPage",
                                   IF nextSelector # "" THEN nextSelector
                                   ELSE "a:has-text(\"Next\")")
       /\ configFile' = [written |-> TRUE, baseUrl |-> BaseUrl, selectors |-> selectors']
  /\ toolOutcome' = "Completed"
  /\ step' = "finally"
  /\ UNCHANGED <<crawlVars, fnVars, dashVars>>

\* Step 7: page.goBack throws.
Step7Fails ==
  /\ step = "step7"
  /\ history' = history
  /\ ToolFails
  /\ UNCHANGED <<selectors, configFile>>
  /\ UNCHANGED <<crawlVars, fnVars, dashVars>>

\* finally: the prompt and the browser are closed.
ToolClose ==
  /\ step = "finally"
  /\ step' = "closed"
  /\ UNCHANGED <<selectors, configFile, history, toolOutcome>>
  /\ UNCHANGED <<crawlVars, fnVars, dashVars>>

ToolInit ==
  /\ CrawlInit
  /\ file = NoFile
  /\ call = NoCall
  /\ ret = NoRet
  /\ ToolIdle
  /\ DashIdle

ToolNext ==
  \/ ToolGoto
  \/ ToolGotoFails
  \/ PressEnter
  \/ Step1
  \/ Step1HighlightFails
  \/ Step2
  \/ Step3
  \/ Step4
  \/ Step5
  \/ Step6Found
  \/ Step6NotFound
  \/ Step6Fails
  \/ Step7
  \/ Step7Fails
  \/ ToolClose

\* A run of the Selector Discovery Tool.
ToolSpec == ToolInit /\ [][ToolNext]_vars

\* ------------------------------------------------ the dashboard crawler

\* Company names: two that differ by case only and another one.
StoryNames == {"Acme", "acme", "Bolt"}

\* What discoverAllStories can return: nothing, a name of the vault in
\* another case with a new one, and a name twice.
DiscoveredLists == {<<>>, <<"acme", "Bolt">>, <<"Bolt", "Bolt">>}

\* new Set(existingAnalyses.map(a => a.companyName.toLowerCase()))
existingNamesSet(names) == {toLowerCase(names[k]) : k \in 1..Len(names)}

\* discoveredNames.filter(name => !existingNamesSet.has(name.toLowerCase()))
filteredQueue(discoveredNames, existing) ==
  SelectSeq(discoveredNames, LAMBDA name : toLowerCase(name) \notin existing)

\* A call that has returned: its locals are gone.
LoopDone == [NoLoop EXCEPT !.lpc = "done"]

SetLoop(k, loop) == loops' = [loops EXCEPT ![k] = loop]

\* Start / Resume is clicked while no call holds the running flag: a call
\* of startAutomatedCrawl begins with the stories of the vault as it is in
\* the render the handler belongs to, and awaits the discovery.  (A click
\* while the flag is set returns at once.)
StartClick ==
  /\ status \notin {"discovering", "analyzing"}
  /\ ~isRunning
  /\ \E k \in 1..MaxLoops :
       /\ loops[k].lpc = "unused"
       /\ \A j \in 1..(k - 1) : loops[j].lpc # "unused"
       /\ SetLoop(k, [loops[k] EXCEPT !.lpc = "discovering",
                                      !.existing = existingNamesSet(vault)])
  /\ isRunning' = TRUE
  /\ status' = "discovering"
  /\ UNCHANGED <<vault, sheet, added>>
  /\ UNCHANGED <<crawlVars, fnVars, toolVars>>

\* stopCrawl: Stop is shown while the status is discovering or analyzing.
StopClick ==
  /\ status \in {"discovering", "analyzing"}
  /\ isRunning' = FALSE
  /\ status' = "paused"
  /\ UNCHANGED <<vault, sheet, added, loops>>
  /\ UNCHANGED <<crawlVars, fnVars, toolVars>>

\* What a call does at the test of its for loop with index n: the next item
\* is analyzed if the index is in the queue and the flag is set; otherwise
\* the loop ends, and the call completes if the flag is (still) set.
LoopTest(k, queue, n) ==
  IF n <= Len(queue) /\ isRunning
    THEN /\ SetLoop(k, [loops[k] EXCEPT !.lpc = "analyzing", !.existing = {},
                                         !.queue = queue, !.i = n])
         /\ UNCHANGED isRunning
         /\ status' = IF loops[k].lpc = "discovering" THEN "analyzing" ELSE status
    ELSE /\ SetLoop(k, LoopDone)
         /\ IF isRunning
              THEN isRunning' = FALSE /\ status' = "completed"
              ELSE /\ UNCHANGED isRunning
                   /\ status' = IF loops[k].lpc = "discovering" THEN "analyzing" ELSE status

\* discoverAllStories returns; the names already in the vault are dropped.
DiscoverReturns(k) ==
  /\ loops[k].lpc = "discovering"
  /\ \E discoveredNames \in DiscoveredLists :
       LET queue == filteredQueue(discoveredNames, loops[k].existing)
       IN  IF queue = <<>>
             THEN /\ status' = "completed"
                  /\ isRunning' = FALSE
                  /\ SetLoop(k, LoopDone)
             ELSE LoopTest(k, queue, 1)
  /\ UNCHANGED <<vault, sheet, added>>
  /\ UNCHANGED <<crawlVars, fnVars, toolVars>>

\* discoverAllStories throws: the outer catch.
DiscoverFails(k) ==
  /\ loops[k].lpc = "discovering"
  /\ isRunning' = FALSE
  /\ status' = "error"
  /\ SetLoop(k, LoopDone)
  /\ UNCHANGED <<vault, sheet, added>>
  /\ UNCHANGED <<crawlVars, fnVars, toolVars>>

\* analyzeStory returns; the story is built and appendStory is called.
AnalyzeReturns(k) ==
  /\ loops[k].lpc = "analyzing"
  /\ SetLoop(k, [loops[k] EXCEPT !.lpc = "appending", !.story = loops[k].queue[loops[k].i]])
  /\ UNCHANGED <<isRunning, status, vault, sheet, added>>
  /\ UNCHANGED <<crawlVars, fnVars, toolVars>>

\* Mutant of AnalyzeFails: the failure of an item ends the call as a failure
\* of the discovery does.
AnalyzeFails_aborts(k) ==
  /\ loops[k].lpc = "analyzing"
  /\ isRunning' = FALSE
  /\ status' = "error"
  /\ SetLoop(k, LoopDone)
  /\ UNCHANGED <<vault, sheet, added>>
  /\ UNCHANGED <<crawlVars, fnVars, toolVars>>

\* analyzeStory throws: the inner catch logs a warning.
AnalyzeFails(k) ==
  /\ loops[k].lpc = "analyzing"
  /\ SetLoop(k, [loops[k] EXCEPT !.lpc = "sleeping", !.story = ""])
  /\ UNCHANGED <<isRunning, status, vault, sheet, added>>
  /\ UNCHANGED <<crawlVars, fnVars, toolVars>>

\* The sheet takes the row of appendStory; the reply is on its way.
SheetAppends(k) ==
  /\ loops[k].lpc = "appending"
  /\ sheet' = Append(sheet, loops[k].story)
  /\ SetLoop(k, [loops[k] EXCEPT !.lpc = "replying"])
  /\ UNCHANGED <<isRunning, status, vault, added>>
  /\ UNCHANGED <<crawlVars, fnVars, toolVars>>

\* Mutant of AppendFails: onAdd is called in the catch block as well.
AppendFails_adds(k) ==
  /\ loops[k].lpc = "appending"
  /\ added' = Append(added, loops[k].story)
  /\ vault' = <<loops[k].story>> \o vault
  /\ SetLoop(k, [loops[k] EXCEPT !.lpc = "sleeping", !.story = ""])
  /\ UNCHANGED <<isRunning, status, sheet>>
  /\ UNCHANGED <<crawlVars, fnVars, toolVars>>

\* appendStory throws, the request refused or not answered with ok: the
\* inner catch logs a warning; onAdd is not reached.
AppendFails(k) ==
  /\ loops[k].lpc = "appending"
  /\ SetLoop(k, [loops[k] EXCEPT !.lpc = "sleeping", !.story = ""])
  /\ UNCHANGED <<isRunning, status, vault, sheet, added>>
  /\ UNCHANGED <<crawlVars, fnVars, toolVars>>

\* appendStory returns: onAdd(storyData) puts the story first in the vault.
AppendReturns(k) ==
  /\ loops[k].lpc = "replying"
  /\ added' = Append(added, loops[k].story)
  /\ vault' = <<loops[k].story>> \o vault
  /\ SetLoop(k, [loops[k] EXCEPT !.lpc = "sleeping", !.story = ""])
  /\ UNCHANGED <<isRunning, status, sheet>>
  /\ UNCHANGED <<crawlVars, fnVars, toolVars>>

\* The reply of the sheet does not arrive: fetch rejects, the inner catch.
AppendReplyLost(k) ==
  /\ loops[k].lpc = "replying"
  /\ SetLoop(k, [loops[k] EXCEPT !.lpc = "sleeping", !.story = ""])
  /\ UNCHANGED <<isRunning, status, vault, sheet, added>>
  /\ UNCHANGED <<crawlVars, fnVars, toolVars>>

\* The pause of 1500 ms is over: i++ and the test of the loop.
SleepEnds(k) ==
  /\ loops[k].lpc = "sleeping"
  /\ LoopTest(k, loops[k].queue, loops[k].i + 1)
  /\ UNCHANGED <<vault, sheet, added>>
  /\ UNCHANGED <<crawlVars, fnVars, toolVars>>

\* The dashboard when the crawler page opens: the vault holds the stories
\* loaded from the sheet.
DashInit ==
  /\ CrawlInit
  /\ file = NoFile
  /\ call = NoCall
  /\ ret = NoRet
  /\ ToolIdle
  /\ isRunning = FALSE
  /\ status = "idle"
  /\ vault \in {<<>>, <<"Acme">>}
  /\ sheet = vault
  /\ added = <<>>
  /\ loops = [k \in 1..MaxLoops |-> NoLoop]

DashNext ==
  \/ StartClick
  \/ StopClick
  \/ \E k \in 1..MaxLoops : DiscoverReturns(k)
  \/ \E k \in 1..MaxLoops : DiscoverFails(k)
  \/ \E k \in 1..MaxLoops : AnalyzeReturns(k)
  \/ \E k \in 1..MaxLoops : AnalyzeFails(k)
  \/ \E k \in 1..MaxLoops : SheetAppends(k)
  \/ \E k \in 1..MaxLoops : AppendFails(k)
  \/ \E k \in 1..MaxLoops : AppendReturns(k)
  \/ \E k \in 1..MaxLoops : AppendReplyLost(k)
  \/ \E k \in 1..MaxLoops : SleepEnds(k)

\* The dashboard crawler under the clicks of the user and the replies of
\* the services.
DashSpec == DashInit /\ [][DashNext]_vars

\* ------------------------------------------------------------- properties

Crawling == pc \in {"while", "row", "return", "paginate"}

\* The records of contacts up to and including the k-th.
Prefix(contacts, k) == SubSeq(contacts, 1, k)

\* Number of accumulated records the table file of this run holds: the k for
\* which the file is the snapshot of the first k records; 0 before any flush.
SavedCount ==
  IF flushes > 0 /\ \E k \in 0..Len(allContacts) : file = toCSV(Prefix(allContacts, k))
    THEN CHOOSE k \in 0..Len(allContacts) : file = toCSV(Prefix(allContacts, k))
    ELSE 0

\* C1. Checkpoint cadence: while the crawl goes on, whenever the accumulated
\* count is a positive multiple of 10 the table file holds exactly the
\* accumulated records: the flush was made in the step that appended the
\* record, before the next row or the pagination step.
C1_CheckpointCadence ==
  (Crawling /\ Len(allContacts) > 0 /\ Len(allContacts) % 10 = 0)
    => /\ file = toCSV(allContacts)
       /\ flushes = Len(allContacts) \div 10

\* The tenth record was appended in the middle of a page.
C1_Witness ==
  /\ pc = "row"
  /\ Len(allContacts) = 10
  /\ i > 1
  /\ file = toCSV(allContacts)

\* C2. Snapshot consistency: once this run has written the table file, the
\* file is the header row followed by whole rows for a prefix of the
\* accumulated records.
C2_SnapshotConsistency ==
  flushes > 0 =>
    \E k \in 0..Len(allContacts) :
      /\ Len(file) = k + 1
      /\ file[1] = CSV_HEADERS
      /\ \A j \in 1..k : file[j + 1] = CsvRow(allContacts[j])

\* The file was overwritten by a second flush and is behind the buffer.
C2_Witness ==
  /\ flushes = 2
  /\ Len(file) - 1 = 20
  /\ Len(allContacts) > 20
  /\ priorFile = OldFile

C5_ExitStatus ==
  pc = "exited" =>
    /\ outcome = "Completed" => exitCode = 0
    /\ outcome = "Error" => exitCode # 0

\* C6. Final flush on completion: when the crawl is Completed a final flush
\* has been made and the table file is the header plus every accumulated
\* record, in order.
C6_FinalFlush ==
  outcome = "Completed" =>
    /\ flushes >= 1
    /\ file = toCSV(allContacts)
    /\ Len(file) = Len(allContacts) + 1

\* Completed with a count that no checkpoint covers.
C6_Witness ==
  /\ outcome = "Completed"
  /\ Len(allContacts) = 13
  /\ flushes = 2

\* C7. Bounded unsaved tail: while the crawl goes on, at most 9 accumulated
\* records are missing from the table file.
C7_BoundedUnsavedTail ==
  Crawling => Len(allContacts) - SavedCount <= 9

\* Nine records wait for the second checkpoint.
C7_Witness ==
  /\ pc = "row"
  /\ Len(allContacts) = 19
  /\ SavedCount = 10

\* C8. A failed detail fetch is not fatal: the Detail Visitor returns the
\* empty string, the exception does not reach the catch block of the crawl,
\* and the record appended for the row has an empty email.
C8_DetailFailureNotFatal ==
  lastDetail = "navfail" =>
    /\ errSrc # "detail"
    /\ pc = "return" => (outcome = "none" /\ contact.email = "")
    /\ pc \in {"row", "paginate"} =>
         /\ outcome = "none"
         /\ allContacts[Len(allContacts)] = parseContactFromRow(contactElements[i - 1])
         /\ allContacts[Len(allContacts)].email = ""

\* The detail fetch of a row failed and the crawl is at the next row.
C8_Witness ==
  /\ lastDetail = "navfail"
  /\ pc = "row"
  /\ i > 1
  /\ allContacts[Len(allContacts)].email = ""

\* C9. Return to the results page: between two rows and when the Pagination
\* Driver is invoked the browser shows the results page whose rows are being
\* iterated, and the pages extracted are the pages 1, 2, ... in order.
C9_ReturnToResultsPage ==
  /\ pc \in {"row", "paginate"} => (IsResults(url) /\ url = iterPage)
  /\ \A k \in 1..Len(extracted) : extracted[k] = ResultsUrl(k)

\* After detail visits on page 2 the browser is back on page 2.
C9_Witness ==
  /\ pc = "paginate"
  /\ lastDetail \in {"found", "nothing", "navfail"}
  /\ currentUrl = ResultsUrl(2)
  /\ url = ResultsUrl(2)

\* C10. A pagination failure is not fatal: an exception in goToNextPage
\* makes it report false, the crawl leaves the loop and completes, and the
\* final flush persists every record collected.
C10_PaginationFailureNotFatal ==
  pagResult = "exception" =>
    /\ ~hasNextPage
    /\ outcome # "Error"
    /\ pc \in {"while", "finally", "exited"}
    /\ outcome = "Completed" => file = toCSV(allContacts)

\* The crawl completed early, below the page ceiling, with records saved.
C10_Witness ==
  /\ pagResult = "exception"
  /\ outcome = "Completed"
  /\ pageNum < maxPages
  /\ Len(allContacts) = 1
  /\ file = toCSV(allContacts)

\* C11. Disabled next-page control: when the control goToNextPage locates
\* carries the disabled class, the disabled attribute or aria-disabled="true",
\* the function activates nothing and reports false, whatever the text.
C11_DisabledControl ==
  (Returned /\ call.fn = "goToNextPage" /\ Len(call.arg.matches) >= 1) =>
    LET el == call.arg.matches[1] IN
      (el.cls \/ el.attr \/ el.aria) => (ret.val.result = FALSE /\ ret.val.clicked = 0)

\* A control with text "Next" that only aria-disabled marks.
C11_Witness ==
  /\ Returned
  /\ call.fn = "goToNextPage"
  /\ call.arg.fault = "none"
  /\ Len(call.arg.matches) = 1
  /\ call.arg.matches[1] = [text |-> "Next", cls |-> FALSE, attr |-> FALSE, aria |-> TRUE]
  /\ ret.val.result = FALSE

PageRank == 2 * MaxRows + 4
Rank ==
  CASE pc = "exited" -> 0
    [] pc = "finally" -> 1
    [] pc = "start" -> 3 + (maxPages + 1) * PageRank
    [] pc = "gating" -> 2 + (maxPages + 1) * PageRank
    [] pc = "while" ->
         2 + (maxPages + 1 - pageNum) * PageRank + (IF LoopCond THEN PageRank - 1 ELSE 0)
    [] pc = "row" ->
         2 + (maxPages + 1 - pageNum) * PageRank + 2 * (Len(contactElements) - i + 1) + 1
    [] pc = "return" ->
         2 + (maxPages + 1 - pageNum) * PageRank + 2 * (Len(contactElements) - i + 1)
    [] pc = "paginate" -> 2 + (maxPages + 1 - pageNum) * PageRank + 1

\* C13. Termination: every step of a crawl run strictly decreases a rank
\* that is a natural number, whatever the rows per page and the next-page
\* control do, and a run that has not exited can always take a step; the
\* run that has exited is Completed or Error.  Every wait being bounded,
\* every run therefore reaches Completed or Error.
C13_Termination ==
  /\ [][Rank' \in Nat /\ Rank' < Rank]_vars
  /\ [](pc # "exited" => ENABLED Next)
  /\ [](pc \in {"finally", "exited"} <=> outcome \in {"Completed", "Error"})

\* A control that is enabled on every page: the ceiling ends the crawl.
C13_Witness ==
  /\ pc = "exited"
  /\ outcome = "Completed"
  /\ pagResult = "clicked"
  /\ Len(allContacts) = maxPages * MaxRows

\* C14. Gating is unconditional: the login wait never raises an error, and
\* it ends at the loop entry for page 1, on the page of the base URL, with
\* the crawl going on, whether the marker appeared or the wait timed out.
C14_GatingUnconditional ==
  /\ errSrc # "login"
  /\ pc = "gating" => outcome = "none"
  /\ (pc = "while" /\ extracted = <<>>) =>
        /\ outcome = "none"
        /\ pageNum = 1
        /\ LoopCond
        /\ url = ResultsUrl(1)
  /\ (Len(extracted) >= 1) => extracted[1] = ResultsUrl(1)

\* The wait timed out and the rows of page 1 are being processed.
C14_Witness ==
  /\ ~loginDetected
  /\ pc = "row"
  /\ pageNum = 1
  /\ iterPage = ResultsUrl(1)
  /\ outcome = "none"

\* C15. Zero rows is not an error: after a page with no row the crawl is at
\* the Pagination Driver, not in Error, with no detail visit made and no
\* record of that page appended; the row loop is entered only with a row.
C15_ZeroRows ==
  /\ pc \in {"row", "return"} => i \in 1..Len(contactElements)
  /\ (pc = "paginate" /\ contactElements = <<>>) =>
        /\ outcome = "none"
        /\ lastDetail = "none"
        /\ url = iterPage
        /\ \A k \in 1..Len(allContacts) : RowOf(allContacts[k])[1] # PageOf(iterPage)

\* Page 2 had no row; the records of page 1 are kept.
C15_Witness ==
  /\ pc = "paginate"
  /\ contactElements = <<>>
  /\ iterPage = ResultsUrl(2)
  /\ Len(allContacts) = MaxRows

\* C16. No retry: once the crawl is Completed or Error nothing is extracted,
\* visited, appended or written any more, and no results page is extracted
\* twice in a run.
C16_NoRetry ==
  /\ [][outcome # "none" =>
          UNCHANGED <<outcome, allContacts, extracted, url, file, pageNum, contactElements>>]_vars
  /\ [](\A a, b \in 1..Len(extracted) : a # b => extracted[a] # extracted[b])

\* A crawl that failed on page 2 has exited.
C16_Witness ==
  /\ pc = "exited"
  /\ outcome = "Error"
  /\ errSrc = "extract"
  /\ extracted = <<ResultsUrl(1)>>

\* C17. Output schema: every flush writes a first row that is exactly the
\* ten headers First Name, Middle Initial, Last Name, Address1, Address2,
\* City, State, Zip, Phone, Email in that order, followed by exactly one row
\* per accumulated record, with exactly ten fields in the same column order.
C17_OutputSchema ==
  [][flushes' # flushes =>
       /\ Len(file') = Len(allContacts') + 1
       /\ file'[1] = <<"First Name", "Middle Initial", "Last Name", "Address1",
                       "Address2", "City", "State", "Zip", "Phone", "Email">>
       /\ \A k \in 1..Len(allContacts') :
            LET c == allContacts'[k]
                r == file'[k + 1]
            IN  /\ Len(r) = 10
                /\ r[1] = c.firstName /\ r[2] = c.middleInitial /\ r[3] = c.lastName
                /\ r[4] = c.address1 /\ r[5] = c.address2 /\ r[6] = c.city
                /\ r[7] = c.state /\ r[8] = c.zip /\ r[9] = c.phone
                /\ r[10] = c.email]_vars

\* A checkpoint file with a row whose email is empty and one whose email
\* was found.
C17_Witness ==
  /\ flushes > 0
  /\ Len(file) = CheckpointEvery + 1
  /\ \E j, k \in 2..Len(file) : file[j][10] = "" /\ file[k][10] # ""
  /\ file[2][6][1] = "city"
  /\ file[2][7][1] = "state"

\* A reader of comma-separated text as RFC 4180 describes it, reading a
\* line feed, a carriage return or the pair of them outside quotes as the
\* end of a record.  st is "start" at the start of a field, "plain" in an
\* unquoted field, "quoted" in a quoted field, "closing" after a quote
\* inside a quoted field.
RECURSIVE ReadFrom(_, _, _, _, _)
ReadFrom(text, st, fld, row, rows) ==
  IF text = <<>>
    THEN IF st = "start" /\ row = <<>> /\ rows # <<>> THEN rows
         ELSE Append(rows, Append(row, fld))
  ELSE
    LET c == Head(text)
        rest == Tail(text)
        afterBreak == IF c = CR /\ rest # <<>> /\ Head(rest) = LF THEN Tail(rest) ELSE rest
    IN  IF st = "quoted"
          THEN IF c = DQUOTE THEN ReadFrom(rest, "closing", fld, row, rows)
               ELSE ReadFrom(rest, "quoted", Append(fld, c), row, rows)
        ELSE IF c = DQUOTE /\ st = "start" THEN ReadFrom(rest, "quoted", <<>>, row, rows)
        ELSE IF c = DQUOTE /\ st = "closing"
          THEN ReadFrom(rest, "quoted", Append(fld, DQUOTE), row, rows)
        ELSE IF c = COMMA THEN ReadFrom(rest, "start", <<>>, Append(row, fld), rows)
        ELSE IF c \in {CR, LF}
          THEN ReadFrom(afterBreak, "start", <<>>, <<>>, Append(rows, Append(row, fld)))
        ELSE ReadFrom(rest, "plain", Append(fld, c), row, rows)

\* The records read from a text, each the sequence of its fields.
ReadCSV(text) == ReadFrom(text, "start", <<>>, <<>>, <<>>)

\* What the fields of a record are expected to read back as.
ReadBack(fields) == [k \in 1..Len(fields) |-> IF fields[k] = Null THEN <<>> ELSE fields[k]]

\* C18. CSV round-trip: for every record whose fields are arbitrary texts
\* (commas, double quotes and line breaks included), reading the line that
\* toCSV wrote for it gives one record with exactly the ten original field
\* values, a null field reading back as the empty text.
C18_RoundTrip ==
  (Returned /\ call.fn = "toCSV") =>
     ReadCSV(ret.val) = <<ReadBack(FieldsOf(call.arg))>>

\* The round trip of C18 holds for the records none of whose fields holds a
\* carriage return.
RoundTripWithoutCR ==
  (/\ Returned
   /\ call.fn = "toCSV"
   /\ \A k \in 1..10 : FieldsOf(call.arg)[k] = Null \/ ~Includes(FieldsOf(call.arg)[k], CR))
     => ReadCSV(ret.val) = <<ReadBack(FieldsOf(call.arg))>>

\* What each strategy of the Detail Visitor finds on a page, cleaned.
FoundByLink(p) == IF p.mailto.present THEN cleanEmail(p.mailto.addr) ELSE ""
FoundByText(p) == IF p.matches # <<>> THEN cleanEmail(PersonFirst(p.matches)) ELSE ""
FoundByLabel(p) == cleanEmail(p.labelled)

\* C19. Strategy order: on a page that loads, getEmailFromDetailPage
\* returns the first non-empty result of the mail link, the text scan and
\* the labelled scan, in that order; a mail link with no address does not
\* stop the text scan or the labelled scan from giving the result.
C19_StrategyOrder ==
  (Returned /\ call.fn = "getEmailFromDetailPage" /\ ~call.arg.fault) =>
     ret.val = (IF FoundByLink(call.arg) # "" THEN FoundByLink(call.arg)
                ELSE IF FoundByText(call.arg) # "" THEN FoundByText(call.arg)
                ELSE FoundByLabel(call.arg))

\* The email-shaped addresses a page shows, in the link, the text or the
\* labelled element.
AddrsOn(p) ==
  ({p.mailto.addr, p.labelled} \cup {p.matches[k] : k \in 1..Len(p.matches)})
    \cap EmailShaped

\* C20. Generic address as last resort: on a page that loads and whose
\* email-shaped addresses, in a mail link or in the text, are one generic
\* address and nothing else, the Detail Visitor returns that address and
\* not the empty text.
C20_GenericLastResort ==
  (/\ Returned
   /\ call.fn = "getEmailFromDetailPage"
   /\ ~call.arg.fault
   /\ \E g \in GenericAddrs : AddrsOn(call.arg) = {g})
     => (ret.val # "" /\ AddrsOn(call.arg) = {ret.val})

\* A mail link whose address part is not an address.
BareLink(p) == p.mailto.present /\ cleanEmail(p.mailto.addr) = ""

\* The order of C19 and the last resort of C20 hold on the pages without a
\* mail link that carries no address.
OrderUnlessBareLink ==
  (Returned /\ call.fn = "getEmailFromDetailPage" /\ ~call.arg.fault /\ ~BareLink(call.arg)) =>
     /\ ret.val = (IF FoundByLink(call.arg) # "" THEN FoundByLink(call.arg)
                   ELSE IF FoundByText(call.arg) # "" THEN FoundByText(call.arg)
                   ELSE FoundByLabel(call.arg))
     /\ (\E g \in GenericAddrs : AddrsOn(call.arg) = {g}) => AddrsOn(call.arg) = {ret.val}

\* C26 as stated. Page counter bound: in every reachable state the page
\* counter is at most maxPages, the counter being incremented only when the
\* Pagination Driver reports another page and the counter has not yet
\* reached maxPages.
C26_CounterAtMostMax ==
  /\ pageNum <= maxPages
  /\ (pc = "while" /\ pagResult = "clicked") => pageNum <= maxPages

\* C26, amended. The page counter starts at 1 and is incremented by one
\* exactly when the Pagination Driver reports another page, whatever the
\* counter is; it is at most maxPages + 1 in every reachable state, and a
\* page is extracted only while it is at most maxPages.
C26_CounterBound ==
  /\ [](Crawling => pageNum \in 1..(maxPages + 1))
  /\ [][pageNum' # pageNum =>
          \/ pc = "gating" /\ pageNum' = 1
          \/ pc = "paginate" /\ pagResult' = "clicked" /\ pageNum' = pageNum + 1]_vars
  /\ [][(pc = "paginate" /\ pc' = "while" /\ pagResult' = "clicked") =>
          pageNum' = pageNum + 1]_vars
  /\ [][extracted' # extracted => pageNum <= maxPages]_vars

\* The control of page maxPages was enabled: the counter has passed maxPages.
C26_Witness ==
  /\ pc = "while"
  /\ hasNextPage
  /\ pageNum = maxPages + 1
  /\ url = ResultsUrl(maxPages + 1)

\* The records of the page p among the accumulated ones, in order.
RecordsOfPage(p) == SelectSeq(allContacts, LAMBDA c : RowOf(c)[1] = p)

\* C28. State ordering: the Pagination Driver is invoked only when every
\* RawRow of the page has been processed and appended; a further page is
\* extracted only after the Pagination Driver reported true for the page
\* before; no record of a later page precedes a record of an earlier page.
C28_StateOrdering ==
  /\ [](pc = "paginate" =>
          /\ i = Len(contactElements) + 1
          /\ Len(RecordsOfPage(PageOf(iterPage))) = Len(contactElements)
          /\ \A k \in 1..Len(contactElements) :
               RowOf(RecordsOfPage(PageOf(iterPage))[k]) = <<PageOf(iterPage), k>>)
  /\ [][extracted' # extracted =>
          /\ pc = "while"
          /\ extracted' = Append(extracted, url)
          /\ (extracted # <<>> => (pagResult = "clicked" /\ url = NextUrl(iterPage)))]_vars
  /\ [][(pagResult' # pagResult \/ (pc' = "while" /\ pc # "gating")) =>
          pc = "paginate"]_vars
  /\ [](\A j, k \in 1..Len(allContacts) :
          j < k => RowOf(allContacts[j])[1] <= RowOf(allContacts[k])[1])
  /\ [](pc \in {"row", "return"} =>
          \A k \in 1..Len(allContacts) : RowOf(allContacts[k])[1] <= PageOf(iterPage))

\* The second page is being processed after a full first page.
C28_Witness ==
  /\ pc = "return"
  /\ iterPage = ResultsUrl(2)
  /\ i = 2
  /\ Len(RecordsOfPage(1)) = MaxRows
  /\ Len(RecordsOfPage(2)) = 1

\* C29. One record per row, in order: the accumulated records are, page by
\* page in page order, the rows 1, 2, 3, ... of the page without a gap and
\* without a repetition, and the page in progress has one record for each
\* of its rows processed so far.
C29_OneRecordPerRow ==
  /\ \A k \in 1..Len(allContacts) :
       LET row == RowOf(allContacts[k])
       IN  /\ row[1] \in 1..maxPages
           /\ IF k = 1 \/ RowOf(allContacts[IF k = 1 THEN 1 ELSE k - 1])[1] # row[1]
                THEN /\ row[2] = 1
                     /\ k > 1 => RowOf(allContacts[k - 1])[1] < row[1]
                ELSE row[2] = RowOf(allContacts[k - 1])[2] + 1
  /\ (pc \in {"row", "return", "paginate"}) =>
       /\ Len(RecordsOfPage(PageOf(iterPage))) = i - 1
       /\ \A k \in 1..(i - 1) :
            /\ RowOf(RecordsOfPage(PageOf(iterPage))[k]) = <<PageOf(iterPage), k>>
            /\ RowOf(RecordsOfPage(PageOf(iterPage))[k])
                 = <<contactElements[k].page, contactElements[k].index>>

\* A row without a link and rows with a link each gave their record.
C29_Witness ==
  /\ pc = "row"
  /\ i = MaxRows
  /\ Len(allContacts) = MaxRows - 1
  /\ \E k \in 1..Len(allContacts) : ~contactElements[k].href

\* IsPrefix(s, t): t begins with s.
IsPrefix(s, t) == Len(s) <= Len(t) /\ SubSeq(t, 1, Len(s)) = s

\* C30. Append-only buffer: every step leaves the accumulated records as
\* they are or appends a single record, whose email was filled in or left
\* empty before the append; the content of a flush of the run has the
\* content of the flush before it as a prefix.
C30_AppendOnly ==
  /\ [][\/ allContacts' = allContacts
        \/ /\ allContacts' = Append(allContacts, contact')
           /\ pc = "return" => (contact' = contact /\ lastDetail' = lastDetail)
           /\ pc = "row" => (contact'.email = "" /\ lastDetail' = "nolink")
           /\ lastDetail # "found" => contact'.email = ""]_vars
  /\ [][flushes > 0 => IsPrefix(file, file')]_vars
  /\ [](flushes > 0 => IsPrefix(Tail(file), [k \in 1..Len(allContacts) |-> CsvRow(allContacts[k])]))

\* A second flush extended the first one; the buffer has grown since.
C30_Witness ==
  /\ flushes = 2
  /\ Len(file) = 2 * CheckpointEvery + 1
  /\ Len(allContacts) = 2 * CheckpointEvery + 1
  /\ allContacts[1].email # ""

\* An element the three marks leave enabled.
Enabled(el) == ~(el.cls \/ el.attr \/ el.aria)

\* C27. Enabled control is found: when no call of the browser throws,
\* goToNextPage reports false only if no matching element is enabled; if a
\* matching element is enabled, even after a disabled one, it activates an
\* enabled element and reports true.
C27_EnabledControlFound ==
  (Returned /\ call.fn = "goToNextPage" /\ call.arg.fault = "none") =>
     LET m == call.arg.matches
     IN  IF \E k \in 1..Len(m) : Enabled(m[k])
           THEN /\ ret.val.result = TRUE
                /\ ret.val.clicked \in 1..Len(m)
                /\ Enabled(m[ret.val.clicked])
           ELSE ret.val.result = FALSE /\ ret.val.clicked = 0

\* The statement of C27 holds on the pages whose first matching element is
\* enabled or none of whose matching elements is.
EnabledFoundIfFirst ==
  (/\ Returned
   /\ call.fn = "goToNextPage"
   /\ call.arg.fault = "none"
   /\ LET m == call.arg.matches
      IN  m # <<>> => (Enabled(m[1]) \/ \A k \in 1..Len(m) : ~Enabled(m[k])))
     => LET m == call.arg.matches
        IN  IF \E k \in 1..Len(m) : Enabled(m[k])
              THEN ret.val.result = TRUE /\ ret.val.clicked = 1
              ELSE ret.val.result = FALSE /\ ret.val.clicked = 0

\* The tokens of a name: its maximal runs of characters other than the
\* blank, from left to right.
TokenStarts(name) ==
  {a \in 1..Len(name) : name[a] # SPACE /\ (a = 1 \/ name[a - 1] = SPACE)}
TokenEnd(name, a) ==
  CHOOSE b \in a..Len(name) :
    /\ \A j \in a..b : name[j] # SPACE
    /\ b = Len(name) \/ name[b + 1] = SPACE
Token(name, k) ==
  LET a == CHOOSE x \in TokenStarts(name) :
             Cardinality({y \in TokenStarts(name) : y < x}) = k - 1
  IN  SubSeq(name, a, TokenEnd(name, a))
TokenCount(name) == Cardinality(TokenStarts(name))

\* The tokens from the k-th onward, joined by single blanks.
RECURSIVE TokensFrom(_, _)
TokensFrom(name, k) ==
  IF k > TokenCount(name) THEN <<>>
  ELSE IF k = TokenCount(name) THEN Token(name, k)
  ELSE Token(name, k) \o <<SPACE>> \o TokensFrom(name, k + 1)

IsLetter(ch) == ch = "a"

\* C21. parseName on two tokens: for a name of exactly two tokens,
\* firstName is the first token, middleInitial is empty and lastName is the
\* second token.
C21_TwoTokens ==
  (Returned /\ call.fn = "parseName" /\ TokenCount(call.arg) = 2) =>
     ret.val = [firstName |-> Token(call.arg, 1),
                middleInitial |-> <<>>,
                lastName |-> Token(call.arg, 2)]

\* Two tokens with blanks around and several blanks between them.
C21_Witness ==
  /\ Returned
  /\ call.fn = "parseName"
  /\ call.arg = <<SPACE, "a", DOT, SPACE, SPACE, DOT, "a">>
  /\ ret.val.lastName = <<DOT, "a">>

NonBlankLines(text) ==
  LET raw == SplitAt(text, LF)
  IN  SelectSeq([k \in 1..Len(raw) |-> Trim(raw[k])], LAMBDA l : l # <<>>)

\* A line of the shape city, state, zip: a zip code with or without its
\* extension at the end, a state code before it, a city before that,
\* followed by a comma or not, blanks between the three.
HasShape(line) ==
  \E zs \in 1..2 : \E s \in 2..(Len(line) - zs - 1) :
    /\ line[s] \in {STCODE, STLOWER}
    /\ SubSeq(line, Len(line) - zs + 1, Len(line)) \in {<<ZIP>>, <<ZIP, PLUS4>>}
    /\ s + 1 <= Len(line) - zs
    /\ \A j \in (s + 1)..(Len(line) - zs) : line[j] = SPACE
    /\ line[s - 1] = SPACE
    /\ \E j \in 1..(s - 1) : line[j] # SPACE

\* The city, the state and the zip code of a line of that shape.
ShapeParts(line) ==
  LET zs == IF line[Len(line)] = PLUS4 THEN 2 ELSE 1
      s == CHOOSE x \in 2..(Len(line) - zs - 1) :
             /\ line[x] \in {STCODE, STLOWER}
             /\ \A j \in (x + 1)..(Len(line) - zs) : line[j] = SPACE
      before == TrimRight(SubSeq(line, 1, s - 1))
      city == IF Len(before) > 1 /\ before[Len(before)] = COMMA
                THEN TrimRight(SubSeq(before, 1, Len(before) - 1))
                ELSE before
  IN  [city |-> city, state |-> <<STCODE>>, zip |-> SubSeq(line, Len(line) - zs + 1, Len(line))]

\* C23. parseAddress: for every text, address1 is the first non-blank
\* trimmed line; if the last non-blank line has the shape city, state, zip
\* then city, state and zip are taken from it and address2 is the interior
\* lines joined by comma; otherwise city, state and zip are empty and
\* address2 is all the lines after the first.
C23_ParseAddress ==
  (Returned /\ call.fn = "parseAddress") =>
     LET lines == NonBlankLines(call.arg)
         n == Len(lines)
     IN  /\ ret.val.address1 = (IF n = 0 THEN <<>> ELSE lines[1])
         /\ IF n >= 1 /\ HasShape(lines[n])
              THEN /\ ret.val.city = ShapeParts(lines[n]).city
                   /\ ret.val.state = ShapeParts(lines[n]).state
                   /\ ret.val.zip = ShapeParts(lines[n]).zip
                   /\ ret.val.address2 = JoinWith(SubSeq(lines, 2, n - 1), <<COMMA, SPACE>>)
              ELSE /\ ret.val.city = <<>> /\ ret.val.state = <<>> /\ ret.val.zip = <<>>
                   /\ ret.val.address2 = JoinWith(SubSeq(lines, 2, n), <<COMMA, SPACE>>)

\* The statement of C23 holds for the texts with two non-blank lines or
\* more and for those whose only non-blank line has not the shape.
AddressUnlessSingleLine ==
  (/\ Returned
   /\ call.fn = "parseAddress"
   /\ LET lines == NonBlankLines(call.arg)
      IN  Len(lines) = 1 => ~HasShape(lines[1]))
     => LET lines == NonBlankLines(call.arg)
            n == Len(lines)
        IN  /\ ret.val.address1 = (IF n = 0 THEN <<>> ELSE lines[1])
            /\ IF n >= 1 /\ HasShape(lines[n])
                 THEN /\ ret.val.city = ShapeParts(lines[n]).city
                      /\ ret.val.state = ShapeParts(lines[n]).state
                      /\ ret.val.zip = ShapeParts(lines[n]).zip
                      /\ ret.val.address2 = JoinWith(SubSeq(lines, 2, n - 1), <<COMMA, SPACE>>)
                 ELSE /\ ret.val.city = <<>> /\ ret.val.state = <<>> /\ ret.val.zip = <<>>
                      /\ ret.val.address2 = JoinWith(SubSeq(lines, 2, n), <<COMMA, SPACE>>)

SelectorNames ==
  {"contactRow", "nameLink", "address", "cityStateZip", "phone", "email", "nextPage"}

\* C24. The output of the discovery tool is a complete configuration:
\* whenever the tool has written the configuration file, the file holds
\* the base URL and the seven selectors contactRow, nameLink, address,
\* cityStateZip, phone, email and nextPage, each a non-empty string.
C24_CompleteConfig ==
  configFile.written =>
    /\ configFile.baseUrl # ""
    /\ DOMAIN configFile.selectors = SelectorNames
    /\ \A name \in SelectorNames : configFile.selectors[name] # ""

\* The file the tool writes always holds the base URL and the six selectors
\* other than email, each a non-empty string, and no other selector than
\* the seven.
CompleteIfLinkFound ==
  configFile.written =>
    /\ configFile.baseUrl # ""
    /\ SelectorNames \ {"email"} \subseteq DOMAIN configFile.selectors
    /\ DOMAIN configFile.selectors \subseteq SelectorNames
    /\ \A name \in DOMAIN configFile.selectors : configFile.selectors[name] # ""

\* Count(seq, x): how often x occurs in seq.
Count(seq, x) == Cardinality({k \in 1..Len(seq) : seq[k] = x})

\* C25. Sheets backup precedes the vault: a story is passed to onAdd only
\* by a call whose appendStory has put it in the sheet before, so the sheet
\* holds every story added to the vault at least as often as it was added;
\* a call whose appendStory fails does not add its item.
C25_SheetBeforeVault ==
  /\ [](\A name \in StoryNames : Count(added, name) <= Count(sheet, name))
  /\ [][added' # added =>
          \E k \in 1..MaxLoops :
            /\ loops[k].lpc = "replying"
            /\ added' = Append(added, loops[k].story)
            /\ vault' = <<loops[k].story>> \o vault
            /\ sheet' = sheet
            /\ Count(sheet, loops[k].story) > Count(added, loops[k].story)]_vars
  /\ [][\A k \in 1..MaxLoops :
          (loops[k].lpc = "appending" /\ loops'[k].lpc = "sleeping") =>
             (added' = added /\ vault' = vault)]_vars

\* The first item was appended and added; the second reached the sheet,
\* the reply was lost, and it is not in the vault.
C25_Witness ==
  /\ \E k \in 1..MaxLoops :
       /\ loops[k].lpc = "sleeping"
       /\ loops[k].queue = <<"acme", "Bolt">>
       /\ loops[k].i = 2
  /\ added = <<"acme">>
  /\ sheet = <<"acme", "Bolt">>
  /\ vault = <<"acme">>

\* A call that is in its for loop: it analyzes or appends an item or
\* pauses after one.
Processing(k) == loops[k].lpc \in {"analyzing", "appending", "replying", "sleeping"}

\* C34. At most one dashboard crawl loop: at most one call of
\* startAutomatedCrawl is processing queue items at a time.
C34_SingleLoop ==
  Cardinality({k \in 1..MaxLoops : Processing(k)}) <= 1

\* While one call is alive no second one is started unless Stop was
\* clicked in between: a click on Start finds the flag clear.
OneLoopWithoutStop ==
  [][\A k \in 1..MaxLoops :
       (loops[k].lpc = "unused" /\ loops'[k].lpc = "discovering") => ~isRunning]_vars

\* No call is awaiting anything.
Quiescent == \A k \in 1..MaxLoops : loops[k].lpc \in {"unused", "done"}

\* C35. Dashboard crawl status matches the running flag: when no
\* asynchronous step is pending the status is 'discovering' or 'analyzing'
\* only if the running flag is set.
C35_StatusMatchesFlag ==
  (Quiescent /\ status \in {"discovering", "analyzing"}) => isRunning

\* While a call is in its loop the status is never 'discovering' without
\* the flag, and Stop itself leaves the status 'paused'.
PausedAtStop ==
  [][(isRunning /\ ~isRunning' /\ status' # "completed" /\ status' # "error")
        => status' = "paused"]_vars

\* Only one call was ever started.
FirstRun == \A k \in 2..MaxLoops : loops[k].lpc = "unused"

\* C36. Dashboard per-item failure is contained: a failure of analyzeStory
\* or appendStory for an item leaves the status, the running flag, the
\* queue and the index as they are and leads to the pause; after the pause
\* the call goes on with the next item of the queue if there is one and the
\* flag is set, and ends otherwise; the index moves by one only; the status
\* becomes 'error' only by a failure of the discovery; and in a first run
\* the flag is cleared under a processing call only by Stop.
C36_FailureContained ==
  /\ [][\A k \in 1..MaxLoops :
          (loops[k].lpc \in {"analyzing", "appending", "replying"} /\ loops'[k].lpc = "sleeping")
             => /\ status' = status
                /\ isRunning' = isRunning
                /\ loops'[k].queue = loops[k].queue
                /\ loops'[k].i = loops[k].i]_vars
  /\ [][\A k \in 1..MaxLoops :
          (loops[k].lpc = "sleeping" /\ loops'[k] # loops[k])
             => IF isRunning /\ loops[k].i < Len(loops[k].queue)
                  THEN /\ loops'[k].lpc = "analyzing"
                       /\ loops'[k].queue = loops[k].queue
                       /\ loops'[k].i = loops[k].i + 1
                       /\ status' = status
                  ELSE /\ loops'[k].lpc = "done"
                       /\ status' = IF isRunning THEN "completed" ELSE status]_vars
  /\ [][\A k \in 1..MaxLoops :
          (Processing(k) /\ loops'[k].lpc # "done" /\ loops'[k].i # loops[k].i)
             => (loops[k].lpc = "sleeping" /\ loops'[k].i = loops[k].i + 1)]_vars
  /\ [][(status' = "error" /\ status # "error")
          => \E k \in 1..MaxLoops : loops[k].lpc = "discovering" /\ loops'[k].lpc = "done"]_vars
  /\ [][(FirstRun /\ FirstRun' /\ Processing(1) /\ isRunning /\ ~isRunning' /\ loops'[1].lpc # "done")
          => (status' = "paused" /\ loops' = loops)]_vars

\* The only call ever started failed on its first item, nothing reached the
\* sheet, and it is analyzing the second item with the status unchanged.
C36_Witness ==
  /\ FirstRun
  /\ loops[1].lpc = "analyzing"
  /\ loops[1].queue = <<"acme", "Bolt">>
  /\ loops[1].i = 2
  /\ sheet = <<>>
  /\ status = "analyzing"
  /\ isRunning

\* The names of the stories of a sequence, compared case-insensitively.
LowerNames(names) == {toLowerCase(names[n]) : n \in 1..Len(names)}

\* C37. Dashboard crawl adds no duplicate company: in a first run, whose
\* sheet holds the stories of the vault at its start followed by the
\* stories it appended, the item being analyzed or sent to the sheet has a
\* name that no story of the sheet has, case-insensitively.
C37_NoDuplicate ==
  (FirstRun /\ loops[1].lpc \in {"analyzing", "appending"})
     => toLowerCase(loops[1].queue[loops[1].i]) \notin LowerNames(sheet)

\* No item of a queue has the name of a story of the vault as it was at
\* the click that started the call.
NoDuplicateOfVaultAtStart ==
  [][\A k \in 1..MaxLoops :
       (loops[k].lpc = "discovering" /\ loops'[k].lpc = "analyzing")
          => LowerNames(loops'[k].queue) \cap loops[k].existing = {}]_vars

\* C38. Empty failed run leaves the file untouched: a run that ends in a
\* fatal error with no record accumulated has written nothing, the table
\* file is the one the earlier run left; and the step into the catch block
\* with an empty buffer does not touch the file.
C38_EmptyFailedRunNoWrite ==
  /\ []((pc \in {"finally", "exited"} /\ outcome = "Error" /\ allContacts = <<>>)
          => (flushes = 0 /\ file = priorFile))
  /\ [][(outcome # "Error" /\ outcome' = "Error" /\ allContacts = <<>>)
          => (file' = file /\ flushes' = flushes)]_vars

\* The load of the base URL failed, the run has exited, and the file of the
\* earlier run is still there.
C38_Witness ==
  /\ pc = "exited"
  /\ outcome = "Error"
  /\ errSrc = "gotoBase"
  /\ allContacts = <<>>
  /\ priorFile = OldFile
  /\ file = OldFile

\* The page the browser shows.
Shown(h) == h[Len(h)]

\* At Step 7, before it goes back: the results page on which the rows were
\* identified is the page shown, or the one before the detail page.
ResultsPage ==
  IF Shown(history) = "detail" THEN history[Len(history) - 1] ELSE Shown(history)

\* C39. Discovery tool tests next-page candidates on the results page: when
\* Step 7 has gone back and tests the candidates, the browser shows the
\* results page on which the rows were identified, whatever Step 6 did.
C39_Step7OnResultsPage ==
  [][(step = "step7" /\ toolOutcome' = "Completed") => Shown(history') = ResultsPage]_vars

\* When Step 6 opened a detail page, Step 7 is on the results page.
OnResultsPageIfDetailOpened ==
  [][(step = "step7" /\ toolOutcome' = "Completed" /\ Shown(history) = "detail")
        => Shown(history') = ResultsPage]_vars

\* The positions of the text's matches that hold a non-generic address.
NonGenericAt(matches) == {k \in 1..Len(matches) : ~IsGeneric(matches[k])}

\* C33. Non-generic address preferred: on a page that loads, has no mail
\* link and shows in its text a generic and a non-generic address, in
\* either order, the Detail Visitor returns the first non-generic address
\* of the text (as cleanEmail writes it, in lower case).
C33_NonGenericPreferred ==
  (/\ Returned
   /\ call.fn = "getEmailFromDetailPage"
   /\ ~call.arg.fault
   /\ ~call.arg.mailto.present
   /\ NonGenericAt(call.arg.matches) # {}
   /\ NonGenericAt(call.arg.matches) # 1..Len(call.arg.matches))
     => \E k \in NonGenericAt(call.arg.matches) :
          /\ \A j \in NonGenericAt(call.arg.matches) : k <= j
          /\ ret.val = toLowerCase(call.arg.matches[k])
          /\ ~IsGeneric(ret.val)

\* The text shows a generic address before a person's; the person's is
\* returned.
C33_Witness ==
  /\ Returned
  /\ call.fn = "getEmailFromDetailPage"
  /\ ~call.arg.fault
  /\ ~call.arg.mailto.present
  /\ call.arg.matches = <<"support@company.com", "Joe@Example.com">>
  /\ ret.val = "joe@example.com"

\* A matched row that is a data row: no header cell and a name link.
IsDataRow(row) == ~row.th /\ row.link

\* C32. Row filtering: extractContactsFromPage returns, in document order,
\* exactly the matched rows that hold no header cell and hold a name link:
\* every returned item is of such a row, the items stand in the order of
\* their rows, and every such row has exactly one item.
C32_RowFiltering ==
  (Returned /\ call.fn = "extractContactsFromPage") =>
     /\ \A n \in 1..Len(ret.val) :
          /\ ret.val[n].index + 1 \in 1..Len(call.arg)
          /\ IsDataRow(call.arg[ret.val[n].index + 1])
     /\ \A m, n \in 1..Len(ret.val) : m < n => ret.val[m].index < ret.val[n].index
     /\ \A k \in 1..Len(call.arg) :
          Cardinality({n \in 1..Len(ret.val) : ret.val[n].index = k - 1})
            = IF IsDataRow(call.arg[k]) THEN 1 ELSE 0

\* A header row with a link in it, a data row and a row without a link:
\* one item, that of the data row.
C32_Witness ==
  /\ Returned
  /\ call.fn = "extractContactsFromPage"
  /\ call.arg = <<[th |-> TRUE, link |-> TRUE], [th |-> FALSE, link |-> TRUE],
                  [th |-> FALSE, link |-> FALSE]>>
  /\ ret.val = <<[index |-> 1]>>

\* The columns after the name column of a row, and the first of them that
\* satisfies a test (0 if none does).
ColumnsOf(rowData) == Tail(rowData.cellTexts)
FirstColumn(columns, Test(_)) ==
  IF \E k \in 1..Len(columns) : Test(columns[k])
    THEN CHOOSE k \in 1..Len(columns) :
           Test(columns[k]) /\ \A j \in 1..(k - 1) : ~Test(columns[j])
    ELSE 0
HasPhone(cell) == PhoneMatches(cell) # {}
HasCity(cell) == CellCityMatches(cell) # {}

\* C31. Column match takes precedence: when the text of the row and a
\* column after the name column both yield a phone, the record carries the
\* phone of the first such column; the same for city, state and zip, and
\* for address1.
C31_ColumnPrecedence ==
  (Returned /\ call.fn = "parseContactFromRow") =>
     LET columns == ColumnsOf(call.arg)
         guess == RowGuess(call.arg.rowText)
         p == FirstColumn(columns, HasPhone)
         c == FirstColumn(columns, HasCity)
         a == FirstColumn(columns, StartsWithNumber)
     IN  /\ (guess.phone # <<>> /\ p > 0) => ret.val.phone = cleanPhone(PhoneMatch(columns[p]))
         /\ (guess.city # <<>> /\ c > 0) =>
               /\ ret.val.city = CityOf(columns[c], CellCityMatch(columns[c]))
               /\ ret.val.state = StateOf(columns[c], CellCityMatch(columns[c]))
               /\ ret.val.zip = ZipOf(columns[c], CellCityMatch(columns[c]))
         /\ (guess.address1 # <<>> /\ a > 0) => ret.val.address1 = columns[a]

\* What the code does: a field that the text of the row has filled keeps
\* the value of the row, whatever the columns hold.
RowGuessKept ==
  (Returned /\ call.fn = "parseContactFromRow") =>
     LET guess == RowGuess(call.arg.rowText)
     IN  /\ guess.phone # <<>> => ret.val.phone = guess.phone
         /\ guess.city # <<>> =>
               (ret.val.city = guess.city /\ ret.val.state = guess.state /\ ret.val.zip = guess.zip)
         /\ guess.address1 # <<>> => ret.val.address1 = guess.address1

====
